---- MODULE Spec2Model ----
(***************************************************************************)
(* Verification model of the FootwearMaker geometry core.                  *)
(*                                                                         *)
(* Part 1: the Control Lattice, class FFD of src/src/utils/FFD.ts.         *)
(* Part 2: the Seam-Repair Pipeline, smoothSeam of src/unnamed/part_007.   *)
(*                                                                         *)
(* Numbers are exact rationals <<num, den>> (den > 0, lowest terms): the   *)
(* algebra of the lattice is modelled exactly, IEEE rounding is not.       *)
(* A THREE.Vector3 is a triple of rationals, a THREE.Matrix4 that places a *)
(* mesh (mesh.matrix) is an affine map [m |-> 3x3 rows, t |-> translation].*)
(* Every clone()/copy() of the source is a copy by value here.             *)
(***************************************************************************)
EXTENDS Integers, Sequences, FiniteSets, TLC

\* ------------------------------------------------------------------ bounds
\* Number of lattice operations explored after construction.
MaxOps == 3

\* ------------------------------------------------------- exact arithmetic
RECURSIVE Gcd(_, _)
Gcd(a, b) == IF b = 0 THEN a ELSE Gcd(b, a % b)

Abs(x) == IF x < 0 THEN -x ELSE x

\* n/d divided through by g, with the sign carried by the numerator.
Reduced(n, d, g) ==
    IF d < 0 THEN <<-(n \div g), -(d \div g)>> ELSE <<n \div g, d \div g>>

\* The rational n/d in lowest terms with a positive denominator (d # 0).
Rat(n, d) ==
    IF n = 0 THEN <<0, 1>>
    ELSE IF d = 1 THEN <<n, 1>>
    ELSE Reduced(n, d, Gcd(Abs(n), Abs(d)))

R0 == <<0, 1>>
R1 == <<1, 1>>
RInt(n) == <<n, 1>>
\* a + b over the least common denominator, g = gcd of the denominators
AddOver(a, b, g) ==
    Rat(a[1] * (b[2] \div g) + b[1] * (a[2] \div g), (a[2] \div g) * b[2])
RAdd(a, b) ==
    IF a[1] = 0 THEN b
    ELSE IF b[1] = 0 THEN a
    ELSE IF a[2] = b[2] THEN Rat(a[1] + b[1], a[2])
    ELSE AddOver(a, b, Gcd(a[2], b[2]))
RNeg(a) == <<-a[1], a[2]>>
RSub(a, b) == RAdd(a, RNeg(b))
\* a * b, cancelling g1 = gcd(num a, den b) and g2 = gcd(num b, den a) first
MulOver(a, b, g1, g2) ==
    <<(a[1] \div g1) * (b[1] \div g2), (a[2] \div g2) * (b[2] \div g1)>>
RMul(a, b) ==
    IF a[1] = 0 \/ b[1] = 0 THEN R0
    ELSE IF a[2] = 1 /\ b[2] = 1 THEN <<a[1] * b[1], 1>>
    ELSE MulOver(a, b, Gcd(Abs(a[1]), b[2]), Gcd(Abs(b[1]), a[2]))
\* a / b for b # 0.
RDiv(a, b) == RMul(a, IF b[1] < 0 THEN <<-b[2], -b[1]>> ELSE <<b[2], b[1]>>)
RAbs(a) == <<Abs(a[1]), a[2]>>
\* a < b
RLt(a, b) == IF a[2] = b[2] THEN a[1] < b[1] ELSE RSub(a, b)[1] < 0
RMin(a, b) == IF RLt(b, a) THEN b ELSE a
RMax(a, b) == IF RLt(a, b) THEN b ELSE a

RECURSIVE RPow(_, _)
\* Math.pow(t, i) for an integer i >= 0; Math.pow(0, 0) = 1.
RPow(t, i) == IF i = 0 THEN R1 ELSE RMul(t, RPow(t, i - 1))

\* ----------------------------------------------------------- THREE.Vector3
V(x, y, z) == <<RInt(x), RInt(y), RInt(z)>>
VAdd(a, b) == <<RAdd(a[1], b[1]), RAdd(a[2], b[2]), RAdd(a[3], b[3])>>
VSub(a, b) == <<RSub(a[1], b[1]), RSub(a[2], b[2]), RSub(a[3], b[3])>>
\* Vector3.multiplyScalar
VScale(a, w) == <<RMul(a[1], w), RMul(a[2], w), RMul(a[3], w)>>
\* Vector3.divideScalar
VDiv(a, w) == <<RDiv(a[1], w), RDiv(a[2], w), RDiv(a[3], w)>>
VZero == <<R0, R0, R0>>

\* ----------------------------------------------------------- THREE.Matrix4
\* new THREE.Matrix4(): the identity.
Identity ==
    [m |-> <<V(1, 0, 0), V(0, 1, 0), V(0, 0, 1)>>, t |-> VZero]

Dot(r, v) == RAdd(RAdd(RMul(r[1], v[1]), RMul(r[2], v[2])), RMul(r[3], v[3]))

\* Vector3.applyMatrix4 for an affine matrix (the perspective divisor is 1).
ApplyMatrix4(v, M) ==
    <<RAdd(Dot(M.m[1], v), M.t[1]),
      RAdd(Dot(M.m[2], v), M.t[2]),
      RAdd(Dot(M.m[3], v), M.t[3])>>

\* 2x2 minor of the 3x3 part, rows r1 r2, columns c1 c2.
Minor(A, r1, r2, c1, c2) ==
    RSub(RMul(A[r1][c1], A[r2][c2]), RMul(A[r1][c2], A[r2][c1]))

Det3(A) ==
    RAdd(RSub(RMul(A[1][1], Minor(A, 2, 3, 2, 3)),
              RMul(A[1][2], Minor(A, 2, 3, 1, 3))),
         RMul(A[1][3], Minor(A, 2, 3, 1, 2)))

\* The inverse of the 3x3 part A with determinant det # 0, by cofactors.
InverseLinear(A, det) ==
    << <<RDiv(Minor(A, 2, 3, 2, 3), det),
         RDiv(RNeg(Minor(A, 1, 3, 2, 3)), det),
         RDiv(Minor(A, 1, 2, 2, 3), det)>>,
       <<RDiv(RNeg(Minor(A, 2, 3, 1, 3)), det),
         RDiv(Minor(A, 1, 3, 1, 3), det),
         RDiv(RNeg(Minor(A, 1, 2, 1, 3)), det)>>,
       <<RDiv(Minor(A, 2, 3, 1, 2), det),
         RDiv(RNeg(Minor(A, 1, 3, 1, 2)), det),
         RDiv(Minor(A, 1, 2, 1, 2), det)>> >>

\* The affine map with linear part inv that undoes a translation by t.
InverseAffine(inv, t) ==
    [m |-> inv,
     t |-> <<RNeg(Dot(inv[1], t)), RNeg(Dot(inv[2], t)), RNeg(Dot(inv[3], t))>>]

InvertWith(M, det) ==
    IF det[1] = 0
    THEN [m |-> <<VZero, VZero, VZero>>, t |-> VZero]
    ELSE InverseAffine(InverseLinear(M.m, det), M.t)

\* Matrix4.invert(): the inverse by cofactors; a matrix of determinant 0
\* becomes the zero matrix.
Invert(M) == InvertWith(M, Det3(M.m))

\* ------------------------------------------------------------ input meshes
\* Position buffers (geometry.attributes.position) of the meshes a lattice is
\* built over, named by id.
\*   cube:  the 8-vertex cube with bounding box [-1,1]^3;
\*   sheet: a zero-thickness sheet (size.z = 0) over [0,2] x [0,2] with an
\*          interior vertex and a vertex whose x lies 5e-7 of the box size
\*          above the lower face and whose y lies 5e-7 of it below the upper.
MeshPositions(id) ==
    CASE id = "cube" ->
           <<V(-1, -1, -1), V(1, -1, -1), V(-1, 1, -1), V(1, 1, -1),
             V(-1, -1, 1), V(1, -1, 1), V(-1, 1, 1), V(1, 1, 1)>>
      [] id = "sheet" ->
           <<V(0, 0, 0), V(2, 0, 0), V(0, 2, 0), V(1, 1, 0),
             <<Rat(1, 1000000), Rat(1999999, 1000000), R0>> >>

MeshIds == {"cube", "sheet"}

\* FFDSettings offered at construction: <<length, height, width>>
\* subdivisions; 0 stands for a missing (undefined) setting.
SettingsChoices == {<<2, 2, 2>>}

\* -------------------------------------------------------------- FFD state
VARIABLES
    controlPoints,          \* working points, [<<i,j,k>> -> Vector3]
    originalControlPoints,  \* local points
    initialControlPoints,   \* snapshot taken at construction
    bbox,                   \* [min, max] of the input positions
    geometry,               \* position attribute of this.geometry
    originalPositions,      \* positions cached at construction
    subscribers,            \* Set of callbacks
    l, m, n,                \* effective subdivision counts
    requested,              \* the settings the constructor was handed
    size,                   \* bbox size
    currentTransform,
    lastDeformedGeometry,   \* Null or a position buffer
    \* the callers of the lattice
    snapshot,               \* Null or the undo snapshot captured last
    seen,                   \* per callback: what its last invocation read
    \* observation of the run
    op,                     \* the operation performed last
    before,                 \* geometry, transform and op before that operation
    notified,               \* per callback: invocations during that operation
    sculpts,                \* per index: Null or the sculpt edit in force
    steps                   \* operations performed since construction

\* ------------------------------------------------ state of a smoothSeam call
VARIABLES
    resultGeometry,         \* the result mesh handed to smoothSeam, or Null
    toolGeometry,           \* the tool mesh handed to smoothSeam, or Null
    opts,                   \* the options handed to smoothSeam, or Null
    pc,                     \* the stage the call has reached
    positions,              \* working vertex positions (vertex v at v + 1)
    indices,                \* working faces, each <<a, b, c>>
    seamVerts,              \* seam vertex indices, in the order of the Set
    seamSegments,           \* seam edge segments, each [p0, p1]
    pass,                   \* passes of the current loop performed
    maxVertCount,           \* vertex cap of the splitSeamEdges call under way
    pos,                    \* smoothed copy of the positions (Float64Array)
    stepFraction,           \* how far a Laplacian step moves a vertex
    returned,               \* Null or <<the mesh returned>>
    thrown,                 \* Null or <<the error raised>>
    trace                   \* observation of the call: what the stages did

seamVars == <<resultGeometry, toolGeometry, opts, pc, positions, indices,
              seamVerts, seamSegments, pass, maxVertCount, pos, stepFraction,
              returned, thrown, trace>>

ffdVars == <<controlPoints, originalControlPoints, initialControlPoints, bbox,
             geometry, originalPositions, subscribers, l, m, n, size,
             currentTransform, lastDeformedGeometry>>

\* the lattice and what is observed of it
latticeVars == <<controlPoints, originalControlPoints, initialControlPoints,
                 bbox, geometry, originalPositions, subscribers, l, m, n, size,
                 currentTransform, lastDeformedGeometry, snapshot, seen, op,
                 before, notified, sculpts, steps, requested>>

vars == <<controlPoints, originalControlPoints, initialControlPoints, bbox,
          geometry, originalPositions, subscribers, l, m, n, size,
          currentTransform, lastDeformedGeometry, snapshot, seen, op, before,
          notified, sculpts, steps, requested, resultGeometry, toolGeometry,
          opts, pc, positions, indices, seamVerts, seamSegments, pass,
          maxVertCount, pos, stepFraction, returned, thrown, trace>>

\* null; a record that may be null is held as <<record>>.
Null == <<>>

Max(a, b) == IF a > b THEN a ELSE b

\* No smoothSeam call is in progress.
NoCall ==
    /\ resultGeometry = Null /\ toolGeometry = Null /\ opts = Null
    /\ pc = "idle"
    /\ positions = <<>> /\ indices = <<>>
    /\ seamVerts = <<>> /\ seamSegments = <<>>
    /\ pass = 0 /\ maxVertCount = 0 /\ pos = <<>> /\ stepFraction = Null
    /\ returned = Null /\ thrown = Null /\ trace = Null

\* smallest coordinate c over positions ps[1..k]
FoldMin(ps, c, k) ==
    LET among == {ps[i][c] : i \in 1..k}
    IN  CHOOSE x \in among : \A y \in among : RMin(x, y) = x

\* largest coordinate c over positions ps[1..k]
FoldMax(ps, c, k) ==
    LET among == {ps[i][c] : i \in 1..k}
    IN  CHOOSE x \in among : \A y \in among : RMax(x, y) = x

\* new THREE.Box3().setFromBufferAttribute(position)
SetFromBufferAttribute(ps) ==
    [min |-> <<FoldMin(ps, 1, Len(ps)), FoldMin(ps, 2, Len(ps)), FoldMin(ps, 3, Len(ps))>>,
     max |-> <<FoldMax(ps, 1, Len(ps)), FoldMax(ps, 2, Len(ps)), FoldMax(ps, 3, Len(ps))>>]

\* Faulty variant of Subdivisions: the requested count taken as it is.
SubdivisionsUnclamped(count) == IF count = 0 THEN 2 ELSE count

\* Math.max(2, count || 2)
Subdivisions(count) == Max(2, IF count = 0 THEN 2 ELSE count)

GridIndices(ll, mm, nn) == (0..ll) \X (0..mm) \X (0..nn)

\* FFD.initializeControlPoints
InitializeControlPoints(box, sz, ll, mm, nn) ==
    LET stepX == RDiv(sz[1], RInt(ll))
        stepY == RDiv(sz[2], RInt(mm))
        stepZ == RDiv(sz[3], RInt(nn))
    IN  [idx \in GridIndices(ll, mm, nn) |->
           <<RAdd(box.min[1], RMul(RInt(idx[1]), stepX)),
             RAdd(box.min[2], RMul(RInt(idx[2]), stepY)),
             RAdd(box.min[3], RMul(RInt(idx[3]), stepZ))>>]

\* ------------------------------------------------------------ FFD.deform
epsilon == <<1, 1000000>>

\* One parametric coordinate of calculateLocalCoordinates: local / size, 0
\* on a zero-size axis, snapped to 0 or 1 within epsilon.  (A rational is
\* always finite, so the isFinite guard never fires.)
SnapToZero(c) == IF RLt(RAbs(c), epsilon) THEN R0 ELSE c
SnapToOne(c) == IF RLt(RAbs(RSub(c, R1)), epsilon) THEN R1 ELSE c
ParametricCoordinate(local, sz) ==
    SnapToOne(SnapToZero(IF sz[1] # 0 THEN RDiv(local, sz) ELSE R0))

\* FFD.calculateLocalCoordinates of a vertex in the box
LocalCoordinates(local, sz) ==
    [s |-> ParametricCoordinate(local[1], sz[1]),
     t |-> ParametricCoordinate(local[2], sz[2]),
     u |-> ParametricCoordinate(local[3], sz[3])]
CalculateLocalCoordinates(vertex, box) ==
    LocalCoordinates(VSub(vertex, box.min), VSub(box.max, box.min))

RECURSIVE RangeProduct(_, _)
\* lo * (lo+1) * ... * hi, 1 when the range is empty
RangeProduct(lo, hi) == IF lo > hi THEN 1 ELSE hi * RangeProduct(lo, hi - 1)

\* Faulty variant of binomial: the division by 1..k forgotten.
binomialUndivided(nn, k) == RInt(RangeProduct(nn - k + 1, nn))

\* FFD.binomial: multiply by n-k+1..n, then divide by 1..k
binomial(nn, k) == Rat(RangeProduct(nn - k + 1, nn), RangeProduct(1, k))

\* Faulty variant of bernstein: the factor (1 - t)^(n - i) forgotten.
bernsteinWithoutComplement(nn, i, t) == RMul(binomial(nn, i), RPow(t, i))

\* FFD.bernstein
bernstein(nn, i, t) ==
    RMul(RMul(binomial(nn, i), RPow(t, i)), RPow(RSub(R1, t), nn - i))

\* A function value, tabulated: equal to f, with every f[x] computed once.
Tabulated(f) == f @@ <<>>

BlendAdd(a, b) ==
    [result |-> VAdd(a.result, b.result),
     totalWeight |-> RAdd(a.totalWeight, b.totalWeight)]

BlendZero == [result |-> VZero, totalWeight |-> R0]

\* The Bernstein values of one axis, bernstein(nn, i, t) for i = 0..nn.  The
\* source recomputes them inside its loops (lines 187, 189, 191); they depend
\* only on the axis and t.
BernsteinValues(nn, t) == Tabulated([i \in 0..nn |-> bernstein(nn, i, t)])

\* Lines 193-195: what one control point adds to result and totalWeight.
BlendTerm(point, weight) ==
    [result |-> VScale(point, weight), totalWeight |-> weight]

\* The triple loop of calculateDeformedPosition (lines 186-198), one operator
\* per loop; each returns what its passes 0..k (0..j, 0..i) add to result
\* and totalWeight.  b holds the Bernstein values of the three axes, cp the
\* working points.  Sums are exact, so adding per loop equals the source's
\* running sums.

RECURSIVE LoopK(_, _, _, _, _)
LoopK(i, j, k, b, cp) ==
    IF k < 0 THEN BlendZero
    ELSE BlendAdd(LoopK(i, j, k - 1, b, cp),
                  BlendTerm(cp[<<i, j, k>>], RMul(RMul(b.x[i], b.y[j]), b.z[k])))

RECURSIVE LoopJ(_, _, _, _)
LoopJ(i, j, b, cp) ==
    IF j < 0 THEN BlendZero
    ELSE BlendAdd(LoopJ(i, j - 1, b, cp), LoopK(i, j, n, b, cp))

RECURSIVE LoopI(_, _, _)
LoopI(i, b, cp) ==
    IF i < 0 THEN BlendZero
    ELSE BlendAdd(LoopI(i - 1, b, cp), LoopJ(i, m, b, cp))

\* calculateDeformedPosition, lines 200-204: the renormalised sum
Renormalised(acc) ==
    IF acc.totalWeight[1] > 0 THEN VDiv(acc.result, acc.totalWeight)
    ELSE acc.result

\* FFD.calculateDeformedPosition(s, t, u) over the working points cp
CalculateDeformedPosition(local, cp) ==
    Renormalised(LoopI(l, [x |-> BernsteinValues(l, local.s),
                           y |-> BernsteinValues(m, local.t),
                           z |-> BernsteinValues(n, local.u)], cp))

\* Faulty variant of DeformedWith: each call starts from the positions the
\* previous call left in the geometry, not from the cached originals.
DeformedFromCurrent(points, invTransform) ==
    [v \in 1..Len(geometry) |->
       ApplyMatrix4(
           CalculateDeformedPosition(
               CalculateLocalCoordinates(geometry[v], bbox), points),
           invTransform)]

\* deform, lines 118-135, with the inverse transform and the working points
DeformedWith(points, invTransform) ==
    [v \in 1..Len(originalPositions) |->
       ApplyMatrix4(
           CalculateDeformedPosition(
               CalculateLocalCoordinates(originalPositions[v], bbox), points),
           invTransform)]

\* Faulty variant of DeformedPositions: the blended position is carried by
\* the transform itself, not by its inverse.
DeformedWithoutInverse(cp, T) == Tabulated(DeformedWith(Tabulated(cp), T))

\* The buffer deform() computes from the cached original positions, the
\* working points cp and the transform T.
DeformedPositions(cp, T) == Tabulated(DeformedWith(Tabulated(cp), Invert(T)))

\* ------------------------------------------------------------ the callers
\* Matrices handed to updateTransform (mesh.matrix: the identity, after a
\* rotation, after a scale and a move of the mesh); all are invertible.
RotateZ == [m |-> <<V(0, -1, 0), V(1, 0, 0), V(0, 0, 1)>>, t |-> VZero]
ScaleMove == [m |-> <<V(2, 0, 0), V(0, 2, 0), V(0, 0, 2)>>, t |-> V(0, 1, 0)]
Transforms == {Identity, RotateZ, ScaleMove}

\* Positions a control point is dragged to.
MovePositions == {<<R0, Rat(3, 2), R0>>, V(2, 2, 2)}

\* Indices handed to moveControlPoint: the top-centre point, a corner, and
\* indices below and above the range on each axis.
MoveIndices ==
    {<<1, 2, 1>>, <<0, 2, 0>>,
     <<-1, 0, 0>>, <<0, -1, 0>>, <<0, 0, -1>>,
     <<l + 1, 0, 0>>, <<0, m + 1, 0>>, <<0, 0, n + 1>>}

\* Callbacks of the visualisers (ControlPoints, ControlGrid).
Callbacks == {"c1", "c2"}

\* What the callback of ControlPoints.tsx reads when invoked:
\* ffdBox.getControlPoints(), and the deformed buffer of the lattice.
Reading(cp, geom) == [points |-> cp, geometry |-> geom]

\* ------------------------------------------------------------ constructor
NoSculpts(ll, mm, nn) == [idx \in GridIndices(ll, mm, nn) |-> Null]

\* new FFD(geometry, settings) for a mesh of MeshIds and settings of choices.
Construct(choices) ==
    \E id \in MeshIds, settings \in choices :
      LET ps == MeshPositions(id)
          box == SetFromBufferAttribute(ps)
          sz == VSub(box.max, box.min)
          ll == Subdivisions(settings[1])
          mm == Subdivisions(settings[2])
          nn == Subdivisions(settings[3])
          grid == InitializeControlPoints(box, sz, ll, mm, nn)
      IN  /\ currentTransform = Identity
          /\ geometry = ps
          /\ originalPositions = ps
          /\ bbox = box
          /\ size = sz
          /\ l = ll /\ m = mm /\ n = nn
          /\ requested = settings
          /\ controlPoints = grid
          /\ originalControlPoints = grid
          /\ initialControlPoints = grid
          /\ subscribers = {}
          /\ lastDeformedGeometry = Null
          /\ snapshot = Null
          /\ seen = [c \in Callbacks |-> Null]
          /\ op = "construct"
          /\ before = Null
          /\ notified = [c \in Callbacks |-> 0]
          /\ sculpts = NoSculpts(ll, mm, nn)
          /\ steps = 0
          /\ NoCall

Init == Construct(SettingsChoices)

\* ------------------------------------------------------------- operations
\* Faulty variant of NotifySubscribers: every callback ever handed out is
\* invoked, subscribed or not.
NotifyEveryCallback(subs) == [c \in Callbacks |-> 1]

\* FFD.notifySubscribers: subscribers.forEach(callback => callback()); the
\* result is the number of invocations of each callback.
NotifySubscribers(subs) == [c \in Callbacks |-> IF c \in subs THEN 1 ELSE 0]

NoCalls == [c \in Callbacks |-> 0]

\* The run is cut after MaxOps operations.
WithinBudget == steps < MaxOps

\* The bookkeeping every operation shares: the operation's name, the state
\* it started from, the invocation counts and what invoked callbacks read.
Observe(name, calls) ==
    /\ steps' = steps + 1
    /\ op' = name
    /\ before' = <<[geometry |-> geometry, currentTransform |-> currentTransform,
                   op |-> op]>>
    /\ notified' = calls
    /\ seen' = [c \in Callbacks |->
                  IF calls[c] > 0 THEN <<Reading(controlPoints', geometry')>>
                  ELSE seen[c]]

Frame ==
    UNCHANGED <<initialControlPoints, bbox, originalPositions, l, m, n, size,
                requested, seamVars>>

\* Faulty variant of TransformedPoints: the matrix applied to the working
\* points as they stand, so that transforms accumulate.
TransformedWorkingPoints(ocp, matrix) ==
    [idx \in DOMAIN ocp |-> ApplyMatrix4(controlPoints[idx], matrix)]

\* updateTransform, lines 75-85: the local points, each transformed.
TransformedPoints(ocp, matrix) ==
    [idx \in DOMAIN ocp |-> ApplyMatrix4(ocp[idx], matrix)]

\* FFD.updateTransform(matrix)
UpdateTransform(matrix) ==
    /\ WithinBudget
    /\ currentTransform' = matrix
    /\ controlPoints' = TransformedPoints(originalControlPoints, matrix)
    /\ geometry' = DeformedPositions(controlPoints', currentTransform')
    /\ lastDeformedGeometry' = geometry'
    /\ Observe("updateTransform", NotifySubscribers(subscribers))
    /\ UNCHANGED <<originalControlPoints, subscribers, snapshot, sculpts>>
    /\ Frame

\* Faulty variant of HasControlPoint: only the upper ends of the ranges are
\* checked.
HasControlPointBelowUpper(idx) == idx[1] <= l /\ idx[2] <= m /\ idx[3] <= n

\* moveControlPoint, line 93: this.controlPoints[i]?.[j]?.[k] is a point.
HasControlPoint(idx) == idx \in DOMAIN controlPoints

\* Faulty variant of LocalPosition: the dragged position stored as it is, the
\* inverse transform forgotten.
LocalPositionUntransformed(newPosition, transform) == newPosition

\* moveControlPoint, lines 99-103: the new position in local space.
LocalPosition(newPosition, transform) ==
    IF transform # Identity
    THEN ApplyMatrix4(newPosition, Invert(transform))
    ELSE newPosition

\* FFD.moveControlPoint(i, j, k, newPosition)
MoveControlPoint(idx, newPosition) ==
    /\ WithinBudget
    /\ IF ~HasControlPoint(idx)
       THEN /\ Observe("moveControlPoint.return", NoCalls)
            /\ UNCHANGED <<controlPoints, originalControlPoints, geometry,
                           currentTransform, lastDeformedGeometry, subscribers,
                           snapshot, sculpts>>
            /\ Frame
       ELSE /\ controlPoints' = [controlPoints EXCEPT ![idx] = newPosition]
            /\ originalControlPoints' =
                   [originalControlPoints EXCEPT
                      ![idx] = LocalPosition(newPosition, currentTransform)]
            /\ geometry' = DeformedPositions(controlPoints', currentTransform)
            /\ lastDeformedGeometry' = geometry'
            /\ sculpts' = [sculpts EXCEPT
                             ![idx] = <<[position |-> newPosition,
                                        transform |-> currentTransform]>>]
            /\ Observe("moveControlPoint", NotifySubscribers(subscribers))
            /\ UNCHANGED <<currentTransform, subscribers, snapshot>>
            /\ Frame

\* FFD.deform()
Deform ==
    /\ WithinBudget
    /\ geometry' = DeformedPositions(controlPoints, currentTransform)
    /\ lastDeformedGeometry' = geometry'
    /\ Observe("deform", NoCalls)
    /\ UNCHANGED <<controlPoints, originalControlPoints, currentTransform,
                   subscribers, snapshot, sculpts>>
    /\ Frame

\* Faulty variant of ResetPoints: the working points kept as they are.
KeptPoints == controlPoints

\* reset, lines 227-232: the points both arrays are restored from.
ResetPoints == initialControlPoints

\* Faulty variant of ResetTransform: the applied transform kept.
KeptTransform == currentTransform

\* reset, line 233: the transform after a reset.
ResetTransform == Identity

\* FFD.reset()
Reset ==
    /\ WithinBudget
    /\ controlPoints' = ResetPoints
    /\ originalControlPoints' = ResetPoints
    /\ currentTransform' = ResetTransform
    /\ geometry' = DeformedPositions(controlPoints', currentTransform')
    /\ lastDeformedGeometry' = geometry'
    /\ sculpts' = NoSculpts(l, m, n)
    /\ Observe("reset", NotifySubscribers(subscribers))
    /\ UNCHANGED <<subscribers, snapshot>>
    /\ Frame

\* FFD.subscribe(callback)
Subscribe(c) ==
    /\ WithinBudget
    /\ subscribers' = subscribers \cup {c}
    /\ Observe("subscribe", NoCalls)
    /\ UNCHANGED <<controlPoints, originalControlPoints, geometry,
                   currentTransform, lastDeformedGeometry, snapshot, sculpts>>
    /\ Frame

\* The handle subscribe(callback) returned, called.
Unsubscribe(c) ==
    /\ WithinBudget
    /\ subscribers' = subscribers \ {c}
    /\ Observe("unsubscribe", NoCalls)
    /\ UNCHANGED <<controlPoints, originalControlPoints, geometry,
                   currentTransform, lastDeformedGeometry, snapshot, sculpts>>
    /\ Frame

\* captureSnapshot: getControlPoints(), getOriginalControlPoints() and
\* getCurrentTransform(), each a deep copy.  The sculpt edits in force and
\* the vertex positions of the moment are recorded beside them, to be
\* observed again after a restore.
CaptureSnapshot ==
    /\ WithinBudget
    /\ snapshot' = <<[controlPoints |-> controlPoints,
                     originalControlPoints |-> originalControlPoints,
                     currentTransform |-> currentTransform,
                     sculpts |-> sculpts,
                     geometry |-> geometry]>>
    /\ Observe("captureSnapshot", NoCalls)
    /\ UNCHANGED <<controlPoints, originalControlPoints, geometry,
                   currentTransform, lastDeformedGeometry, subscribers, sculpts>>
    /\ Frame

\* FFD.restoreSnapshot(controlPoints, originalControlPoints, transform), as
\* restoreMesh calls it with a captured snapshot[1].
RestoreSnapshot ==
    /\ WithinBudget
    /\ snapshot # Null
    /\ controlPoints' = snapshot[1].controlPoints
    /\ originalControlPoints' = snapshot[1].originalControlPoints
    /\ currentTransform' = snapshot[1].currentTransform
    /\ geometry' = DeformedPositions(controlPoints', currentTransform')
    /\ lastDeformedGeometry' = geometry'
    /\ sculpts' = snapshot[1].sculpts
    /\ Observe("restoreSnapshot", NotifySubscribers(subscribers))
    /\ UNCHANGED <<subscribers, snapshot>>
    /\ Frame

Next ==
    \/ \E matrix \in Transforms : UpdateTransform(matrix)
    \/ \E idx \in MoveIndices, newPosition \in MovePositions :
          MoveControlPoint(idx, newPosition)
    \/ Deform
    \/ Reset
    \/ \E c \in Callbacks : Subscribe(c)
    \/ \E c \in Callbacks : Unsubscribe(c)
    \/ CaptureSnapshot
    \/ RestoreSnapshot

Spec == Init /\ [][Next]_vars

\* The lattice constructed with any of the requested subdivision counts,
\* then deformed and reset.
RequestedCounts == {0, 1, 2, 3}
AnySettings == RequestedCounts \X RequestedCounts \X RequestedCounts
InitAnySettings == Construct(AnySettings)
NextConstructed == Deform \/ Reset
SpecConstructed == InitAnySettings /\ [][NextConstructed]_vars

\* ======================================================================
\* Part 2: the Seam-Repair Pipeline, smoothSeam (src/unnamed/part_007)
\* ======================================================================
\* A vertex index v of the source (0-based) denotes element v + 1 of a
\* position sequence; a face is a triple <<a, b, c>> of vertex indices.
\* Distances are compared through their squares, so that no square root
\* is taken: d < r is LengthSq < r * r for r >= 0.

\* a <= b
RLe(a, b) == ~RLt(b, a)

\* ~~x: the integer part of x, rounded toward zero
Trunc(a) == IF a[1] < 0 THEN -((-a[1]) \div a[2]) ELSE a[1] \div a[2]

\* Vector3.crossVectors
Cross(a, b) ==
    <<RSub(RMul(a[2], b[3]), RMul(a[3], b[2])),
      RSub(RMul(a[3], b[1]), RMul(a[1], b[3])),
      RSub(RMul(a[1], b[2]), RMul(a[2], b[1]))>>

LengthSq(a) == Dot(a, a)

DistSq(a, b) == LengthSq(VSub(a, b))

\* Body(value), with value computed once however often Body looks at it:
\* a const of the source.
Once(value, Body(_)) == CHOOSE y \in {Body(x) : x \in {value}} : TRUE

\* The sequence s with every element computed.
Computed(s) == s \o <<>>

\* The elements of s in the order of their first occurrence: the keys of a
\* Map or Set filled by walking s.
Distinct(s) ==
    LET of(v) ==
          LET tagged == [i \in 1..Len(v) |-> <<i, v[i]>>]
              first(p) == \A j \in 1..(p[1] - 1) : v[j] # p[2]
              project(kept) == Computed([i \in 1..Len(kept) |-> kept[i][2]])
          IN  Once(SelectSeq(tagged, first), project)
    IN  Once(Computed(s), of)

IndexOf(s, x) == CHOOSE i \in 1..Len(s) : s[i] = x

Range(s) == {s[i] : i \in 1..Len(s)}

\* The elements s[i] with keep(i), in order.
Filtered(s, keep(_)) ==
    LET of(v) ==
          LET tagged == [i \in 1..Len(v) |-> <<i, v[i]>>]
              test(p) == keep(p[1])
              project(kept) == Computed([i \in 1..Len(kept) |-> kept[i][2]])
          IN  Once(SelectSeq(tagged, test), project)
    IN  Once(Computed(s), of)

\* ----------------------------------------------------- THREE.BufferGeometry
\* position: Null or <<the position sequence>>; index: Null or <<the corner
\* indices>>; others: the names of the further attributes; boundingBox: Null
\* until computeBoundingBox has run, then <<the box>>.
BufferGeometry(ps, ix, names) ==
    [position |-> ps, index |-> ix, others |-> names, boundingBox |-> Null]

\* Box3.makeEmpty
EmptyBox == [min |-> "+Infinity", max |-> "-Infinity"]

\* BufferGeometry.computeBoundingBox
ComputeBoundingBox(g) ==
    IF g.position = Null \/ g.position[1] = <<>> THEN EmptyBox
    ELSE SetFromBufferAttribute(g.position[1])

\* Faulty variant of CloneWithNormals: the clone loses its index.
CloneWithoutIndex(g) ==
    [g EXCEPT !.index = Null,
              !.others = IF g.position = Null THEN @ ELSE @ \cup {"normal"}]

\* BufferGeometry.clone followed by computeVertexNormals: every buffer is
\* copied by value, the normal attribute is (re)computed when there are
\* positions.
CloneWithNormals(g) ==
    [g EXCEPT !.others = IF g.position = Null THEN @ ELSE @ \cup {"normal"}]

\* ------------------------------------------------------------ call inputs
PA == V(0, 0, 0)
PB == V(4, 0, 0)
PC == V(0, 4, 0)
PD == V(4, 4, 0)
PE == V(0, 0, 4)
\* 1/100 above c and b: beyond the merge tolerance, within the weld tolerance
PCGap == <<R0, RInt(4), Rat(1, 100)>>
PBGap == <<RInt(4), R0, Rat(1, 100)>>

\* Result meshes handed to smoothSeam, named by id.
\*   face:    one triangle;
\*   chip:    one triangle a quarter of that size;
\*   quad:    two triangles over a square, the shared corners stored twice;
\*   crack:   quad with one shared corner of the second triangle 1/100 off;
\*   tetra:   a closed tetrahedron, indexed, with a normal attribute;
\*   open:    tetra without its slanted face;
\*   sliver:  one triangle with two corners 1/100 apart;
\*   pinched: one triangle with two corners at one position;
\*   twin:    one triangle stored twice;
\*   bare:    a geometry without a position attribute.
ResultMesh(id) ==
    CASE id = "face" -> BufferGeometry(<< <<PA, PB, PC>> >>, Null, {"normal"})
      [] id = "chip" ->
           BufferGeometry(<< <<PA, V(1, 0, 0), V(0, 1, 0)>> >>, Null, {"normal"})
      [] id = "quad" ->
           BufferGeometry(<< <<PA, PB, PC, PB, PD, PC>> >>, Null, {"normal"})
      [] id = "crack" ->
           BufferGeometry(<< <<PA, PB, PC, PB, PD, PCGap>> >>, Null, {"normal"})
      [] id = "tetra" ->
           BufferGeometry(<< <<PA, PB, PC, PE>> >>,
                          << <<0, 2, 1, 0, 1, 3, 0, 3, 2, 1, 2, 3>> >>,
                          {"normal", "uv"})
      [] id = "open" ->
           BufferGeometry(<< <<PA, PB, PC, PE>> >>,
                          << <<0, 2, 1, 0, 1, 3, 0, 3, 2>> >>, {})
      [] id = "sliver" -> BufferGeometry(<< <<PA, PB, PBGap>> >>, Null, {})
      [] id = "pinched" -> BufferGeometry(<< <<PA, PA, PB>> >>, Null, {})
      [] id = "twin" ->
           BufferGeometry(<< <<PA, PB, PC, PA, PB, PC>> >>, Null, {"normal"})
      [] id = "bare" -> BufferGeometry(Null, Null, {})

ResultIds ==
    {"face", "chip", "quad", "crack", "tetra", "open", "sliver", "pinched",
     "twin", "bare"}

\* Tool meshes handed to smoothSeam.
\*   blade: one triangle in the plane y = 0 whose edge passes through b;
\*          its bounding box has not been computed;
\*   away:  one triangle far from every result mesh, indexed, with its
\*          bounding box already computed.
ToolMesh(id) ==
    CASE id = "blade" ->
           BufferGeometry(<< <<V(4, 0, -1), V(4, 0, 1), V(5, 0, 0)>> >>, Null,
                          {"normal"})
      [] id = "away" ->
           [position |-> << <<V(10, 10, 10), V(11, 10, 10), V(10, 11, 10)>> >>,
            index |-> << <<0, 1, 2>> >>,
            others |-> {},
            boundingBox |-> << [min |-> V(10, 10, 10), max |-> V(11, 11, 10)] >>]

ToolIds == {"blade", "away"}

\* DEFAULT_OPTIONS
DEFAULT_OPTIONS ==
    [strength |-> Rat(4, 5), iterations |-> 0, radius |-> Rat(1, 50)]

\* { ...DEFAULT_OPTIONS, ...options }: a field the caller leaves out takes
\* its default.
MergedOptions(options) ==
    [f \in DOMAIN DEFAULT_OPTIONS |->
        IF f \in DOMAIN options THEN options[f] ELSE DEFAULT_OPTIONS[f]]

\* Options offered by the callers (Partial<SmoothingOptions>).
OptionChoices ==
    {[strength |-> R0],
     [strength |-> RInt(-1), radius |-> RInt(1), iterations |-> 2],
     [radius |-> Rat(1, 2), iterations |-> 1],
     [strength |-> Rat(1, 2), radius |-> RInt(24), iterations |-> 2]}

\* ---------------------------------------------------------- step 1: merge
\* meshScale: the largest extent of the bounding box; -Infinity without
\* positions.
MeshScale(box) ==
    IF box = EmptyBox THEN "-Infinity"
    ELSE RMax(RMax(RSub(box.max[1], box.min[1]), RSub(box.max[2], box.min[2])),
              RSub(box.max[3], box.min[3]))

\* Math.max(floor, meshScale * factor)
ScaledTolerance(floor, meshScale, factor) ==
    IF meshScale = "-Infinity" THEN floor
    ELSE RMax(floor, RMul(meshScale, factor))

MergeTolerance(meshScale) ==
    ScaledTolerance(Rat(1, 10000), meshScale, Rat(2, 10000))

WeldTolerance(meshScale) ==
    ScaledTolerance(Rat(5, 10000), meshScale, Rat(3, 1000))

\* The hash of mergeVertices for one position: per coordinate
\* ~~(x * (1 / tolerance) + 0.5).
MergeHash(p, tolerance) ==
    <<Trunc(RAdd(RDiv(p[1], tolerance), Rat(1, 2))),
      Trunc(RAdd(RDiv(p[2], tolerance), Rat(1, 2))),
      Trunc(RAdd(RDiv(p[3], tolerance), Rat(1, 2)))>>

\* The corners mergeVertices walks: the index buffer, or 0 .. count - 1.
Corners(g) ==
    IF g.index # Null THEN g.index[1]
    ELSE [i \in 1..Len(g.position[1]) |-> i - 1]

\* Faulty variant of MergeVertices: every corner keeps a vertex of its own.
MergeNothing(g, tolerance) ==
    LET corners == Corners(g)
    IN  [position |-> Computed([i \in 1..Len(corners) |->
                                  g.position[1][corners[i] + 1]]),
         index |-> Computed([i \in 1..Len(corners) |-> i - 1])]

\* mergeVertices(posOnly, tolerance) of three/addons BufferGeometryUtils:
\* the first corner with a hash keeps its position, every later corner with
\* that hash takes its index.
MergeVertices(g, tolerance) ==
    LET corners == Corners(g)
        from(hash) ==
          LET with(hashes) ==
                [position |->
                    Computed([k \in 1..Len(hashes) |->
                        g.position[1][corners[IndexOf(hash, hashes[k])] + 1]]),
                 index |->
                    Computed([i \in 1..Len(corners) |->
                        IndexOf(hashes, hash[i]) - 1])]
          IN  Once(Distinct(hash), with)
    IN  Once(Computed([i \in 1..Len(corners) |->
                         MergeHash(g.position[1][corners[i] + 1], tolerance)]),
             from)

\* The faces of a flat index array.
Faces(index) ==
    Computed([f \in 1..(Len(index) \div 3) |->
                <<index[3 * f - 2], index[3 * f - 1], index[3 * f]>>])

\* ------------------------------------------- step 1b: weld boundary vertices
\* The key of the edge from a to b: <<min, max>>.
EdgeKey(a, b) == IF a < b THEN <<a, b>> ELSE <<b, a>>

\* The edge keys in the order the faces present them:
\* [i0, i1], [i1, i2], [i2, i0] of face 1, then of face 2, ...
EdgeKeys(faces) ==
    Computed([e \in 1..(3 * Len(faces)) |->
        LET face == faces[((e - 1) \div 3) + 1]
            k == (e - 1) % 3
        IN  EdgeKey(face[k + 1], face[((k + 1) % 3) + 1])])

\* edgeFaceCount.get(key)
EdgeFaceCount(keys, key) == Cardinality({e \in 1..Len(keys) : keys[e] = key})

\* The keys of the edges that border exactly one face, in Map order.
BoundaryEdges(faces) ==
    LET of(keys) ==
          LET single(edges) ==
                Filtered(edges, LAMBDA i : EdgeFaceCount(keys, edges[i]) = 1)
          IN  Once(Distinct(keys), single)
    IN  Once(EdgeKeys(faces), of)

\* The two ends of each edge one after the other, each vertex once: the
\* order in which a list of edges hands its vertices to a Set.
EndsOf(edges) ==
    Distinct([i \in 1..(2 * Len(edges)) |->
                edges[(i + 1) \div 2][IF i % 2 = 1 THEN 1 ELSE 2]])

\* boundaryVerts: the endpoints of the boundary edges, each pushed once.
BoundaryVerts(faces) == Once(BoundaryEdges(faces), EndsOf)

\* The roots (root[v + 1] for vertex v) after the inner loop for
\* boundaryVerts[i] has run: union(vi, vj) for every later vj within
\* tolerance puts the whole group of vj under the root of vi, which stays
\* what it was.
WeldRow(root, bv, ps, tolSq, i) ==
    LET joined == {root[bv[j] + 1] : j \in {k \in (i + 1)..Len(bv) :
                       RLt(DistSq(ps[bv[i] + 1], ps[bv[k] + 1]), tolSq)}}
        under(group) ==
          Computed([x \in 1..Len(root) |->
                      IF root[x] \in group THEN root[bv[i] + 1] ELSE root[x]])
    IN  Once(joined, under)

RECURSIVE WeldRows(_, _, _, _, _, _)
\* The roots after the outer loop has handled boundaryVerts[from .. to],
\* root being the roots before: the first half of the rows, then the rest.
WeldRows(root, bv, ps, tolSq, from, to) ==
    IF from > to THEN root
    ELSE IF from = to THEN WeldRow(root, bv, ps, tolSq, from)
    ELSE Once(WeldRows(root, bv, ps, tolSq, from, (from + to) \div 2),
              LAMBDA half : WeldRows(half, bv, ps, tolSq,
                                     ((from + to) \div 2) + 1, to))

\* Faulty variant of WeldRoots: no pair is ever close enough.
WeldNoRoots(bv, ps, tolerance) == Computed([x \in 1..Len(ps) |-> x - 1])

\* find(v), at v + 1, for every vertex once the union-find loop is over; a
\* vertex off the boundary is its own root.
WeldRoots(bv, ps, tolerance) ==
    WeldRows(Computed([x \in 1..Len(ps) |-> x - 1]), bv, ps,
             RMul(tolerance, tolerance), 1, Len(bv))

\* weldBoundaryVertices: [merged |-> its return value, indices |-> the faces
\* it leaves, root |-> the vertex each vertex index was replaced by]. The
\* position array is not touched.
WeldBoundaryVertices(ps, faces, tolerance) ==
    LET welded(root) ==
          IF \A x \in 1..Len(root) : root[x] = x - 1
          THEN [merged |-> FALSE, indices |-> faces,
                root |-> root]
          ELSE [merged |-> TRUE,
                indices |-> Computed([f \in 1..Len(faces) |->
                               <<root[faces[f][1] + 1], root[faces[f][2] + 1],
                                 root[faces[f][3] + 1]>>]),
                root |-> root]
        of(bv) == Once(WeldRoots(bv, ps, tolerance), welded)
    IN  Once(BoundaryVerts(faces), of)

\* A face with two equal indices.
Collapsed(face) == face[1] = face[2] \/ face[2] = face[3] \/ face[1] = face[3]

\* Faulty variant of RemoveDegenerateFaces: every face is kept.
KeepEveryFace(faces) == faces

\* removeDegenerateFaces: drops the faces with a repeated index and every
\* face whose three vertices an earlier kept face already has.
RemoveDegenerateFaces(faces) ==
    LET of(all) ==
          Filtered(all, LAMBDA f :
              /\ ~Collapsed(all[f])
              /\ \A g \in 1..(f - 1) : Range(all[g]) # Range(all[f]))
    IN  Once(faces, of)

\* ------------------------------------------------ step 2: findSeamVertices
\* The face normal before normalize(): (B - A) x (C - A).
FaceNormal(ps, face) ==
    Cross(VSub(ps[face[2] + 1], ps[face[1] + 1]),
          VSub(ps[face[3] + 1], ps[face[1] + 1]))

\* A rational within 4e-5 of cos(25 deg)^2 = 0.82139...; no input mesh has
\* a dihedral angle that close to ANGLE_THRESHOLD.
CosSqThreshold == Rat(23, 28)

\* Math.acos(clamp(n0 . n1, -1, 1)) > ANGLE_THRESHOLD for the normalized
\* normals n0, n1 of the unnormalized a, b: n0 . n1 < cos(25 deg). A zero
\* normal normalizes to the zero vector, which makes the dot product 0.
SharpAngle(a, b) ==
    LET sharp(dot) ==
          \/ LengthSq(a) = R0
          \/ LengthSq(b) = R0
          \/ RLt(dot, R0)
          \/ RLt(RMul(dot, dot),
                 RMul(CosSqThreshold, RMul(LengthSq(a), LengthSq(b))))
    IN  Once(Dot(a, b), sharp)

\* The faces an edge of the edgeMap lists, in face order (a face with a
\* repeated index lists itself once per such edge).
EdgeFaces(keys, key) ==
    LET faceOf(hits) == Computed([i \in 1..Len(hits) |-> ((hits[i] - 1) \div 3) + 1])
    IN  Once(Filtered([e \in 1..Len(keys) |-> e], LAMBDA e : keys[e] = key),
             faceOf)

\* Faulty variant of SharpEdge: only the dihedral angle counts.
SharpEdgeByAngleOnly(ps, faces, keys, key) ==
    LET sharp(around) ==
          /\ Len(around) = 2
          /\ SharpAngle(FaceNormal(ps, faces[around[1]]),
                        FaceNormal(ps, faces[around[2]]))
    IN  Once(EdgeFaces(keys, key), sharp)

\* An edge marks its endpoints sharp when it does not border exactly two
\* faces, or borders two faces at more than ANGLE_THRESHOLD.
SharpEdge(ps, faces, keys, key) ==
    LET sharp(around) ==
          \/ Len(around) # 2
          \/ SharpAngle(FaceNormal(ps, faces[around[1]]),
                        FaceNormal(ps, faces[around[2]]))
    IN  Once(EdgeFaces(keys, key), sharp)

\* sharpVerts, in the order the Set received them.
SharpVerts(ps, faces) ==
    LET of(keys) ==
          LET marked(edges) ==
                Filtered(edges, LAMBDA i : SharpEdge(ps, faces, keys, edges[i]))
          IN  Once(Once(Distinct(keys), marked), EndsOf)
    IN  Once(EdgeKeys(faces), of)

\* buildTriangleList
BuildTriangleList(g) ==
    Once(Corners(g),
         LAMBDA corners : Faces([i \in 1..Len(corners) |->
                                   g.position[1][corners[i] + 1]]))

\* closestPtOnTri
ClosestPtOnTri(p, a, b, c) ==
    LET ab == VSub(b, a)
        ac == VSub(c, a)
        ap == VSub(p, a)
        d1 == Dot(ab, ap)
        d2 == Dot(ac, ap)
        bp == VSub(p, b)
        d3 == Dot(ab, bp)
        d4 == Dot(ac, bp)
        cp == VSub(p, c)
        d5 == Dot(ab, cp)
        d6 == Dot(ac, cp)
        vc == RSub(RMul(d1, d4), RMul(d3, d2))
        vb == RSub(RMul(d5, d2), RMul(d1, d6))
        va == RSub(RMul(d3, d6), RMul(d5, d4))
    IN  IF RLe(d1, R0) /\ RLe(d2, R0) THEN a
        ELSE IF RLe(R0, d3) /\ RLe(d4, d3) THEN b
        ELSE IF RLe(R0, d6) /\ RLe(d5, d6) THEN c
        ELSE IF RLe(vc, R0) /\ RLe(R0, d1) /\ RLe(d3, R0)
             THEN VAdd(a, VScale(ab, RDiv(d1, RSub(d1, d3))))
        ELSE IF RLe(vb, R0) /\ RLe(R0, d2) /\ RLe(d6, R0)
             THEN VAdd(a, VScale(ac, RDiv(d2, RSub(d2, d6))))
        ELSE IF RLe(va, R0) /\ RLe(R0, RSub(d4, d3)) /\ RLe(R0, RSub(d5, d6))
             THEN VAdd(b, VScale(VSub(c, b),
                                 RDiv(RSub(d4, d3),
                                      RAdd(RSub(d4, d3), RSub(d5, d6)))))
        ELSE VAdd(VAdd(a, VScale(ab, RDiv(vb, RAdd(RAdd(va, vb), vc)))),
                  VScale(ac, RDiv(vc, RAdd(RAdd(va, vb), vc))))

\* pointNearAnyTriangle
PointNearAnyTriangle(pt, tris, tol) ==
    \E t \in 1..Len(tris) :
        RLe(DistSq(pt, ClosestPtOnTri(pt, tris[t][1], tris[t][2], tris[t][3])),
            RMul(tol, tol))

\* Box3.expandByScalar
ExpandByScalar(box, by) ==
    IF box = EmptyBox THEN box
    ELSE [min |-> <<RSub(box.min[1], by), RSub(box.min[2], by), RSub(box.min[3], by)>>,
          max |-> <<RAdd(box.max[1], by), RAdd(box.max[2], by), RAdd(box.max[3], by)>>]

\* Box3.containsPoint
ContainsPoint(box, p) ==
    /\ box # EmptyBox
    /\ \A c \in 1..3 : RLe(box.min[c], p[c]) /\ RLe(p[c], box.max[c])

\* The sharp vertices that lie on the tool surface.
\* Faulty variant of NearTool: the bounding box the tool mesh carries is
\* trusted, and a tool that carries none filters nothing out.
NearToolByCarriedBox(ps, sharp, tool) ==
    IF tool.boundingBox = Null THEN sharp
    ELSE LET in(toolBBox) ==
               LET of(tris) ==
                     Filtered(sharp, LAMBDA i :
                         /\ ContainsPoint(toolBBox, ps[sharp[i] + 1])
                         /\ PointNearAnyTriangle(ps[sharp[i] + 1], tris,
                                                 Rat(15, 1000)))
               IN  Once(BuildTriangleList(tool), of)
         IN  Once(ExpandByScalar(tool.boundingBox[1], Rat(3, 100)), in)

NearTool(ps, sharp, tool) ==
    LET in(toolBBox) ==
          LET of(tris) ==
                Filtered(sharp, LAMBDA i :
                    /\ ContainsPoint(toolBBox, ps[sharp[i] + 1])
                    /\ PointNearAnyTriangle(ps[sharp[i] + 1], tris,
                                            Rat(15, 1000)))
          IN  Once(BuildTriangleList(tool), of)
    IN  Once(ExpandByScalar(ComputeBoundingBox(tool), Rat(3, 100)), in)

\* Faulty variant of FindSeamVertices: no fallback to the sharp vertices.
FindSeamVerticesNearToolOnly(ps, faces, tool) ==
    Once(SharpVerts(ps, faces),
         LAMBDA sharp : IF sharp = <<>> THEN sharp
                        ELSE NearTool(ps, sharp, tool))

\* findSeamVertices: the sharp vertices near the tool, or every sharp vertex
\* when none is near.
FindSeamVertices(ps, faces, tool) ==
    LET of(sharp) ==
          IF sharp = <<>> THEN sharp
          ELSE Once(NearTool(ps, sharp, tool),
                    LAMBDA near : IF near # <<>> THEN near ELSE sharp)
    IN  Once(SharpVerts(ps, faces), of)

\* What findSeamVertices leaves in the tool mesh: computeBoundingBox runs on
\* toolGeometry itself once a sharp vertex exists.
ToolAfterFindSeamVertices(ps, faces, tool) ==
    IF SharpVerts(ps, faces) = <<>> THEN tool
    ELSE [tool EXCEPT !.boundingBox = <<ComputeBoundingBox(tool)>>]

\* ------------------------------------------ step 3: collectSeamEdgeSegments
\* The edges [a, b] in the order the faces present them.
DirectedEdges(faces) ==
    Computed([e \in 1..(3 * Len(faces)) |->
        LET face == faces[((e - 1) \div 3) + 1]
            k == (e - 1) % 3
        IN  <<face[k + 1], face[((k + 1) % 3) + 1]>>])

\* collectSeamEdgeSegments: one segment per edge with both ends on the seam.
CollectSeamEdgeSegments(ps, faces, seam) ==
    LET of(edges) ==
          LET segment(kept) ==
                Computed([i \in 1..Len(kept) |->
                    [p0 |-> ps[kept[i][1] + 1], p1 |-> ps[kept[i][2] + 1]]])
              onSeam(e) ==
                /\ edges[e][1] \in Range(seam)
                /\ edges[e][2] \in Range(seam)
                /\ \A d \in 1..(e - 1) :
                       EdgeKey(edges[d][1], edges[d][2])
                           # EdgeKey(edges[e][1], edges[e][2])
          IN  Once(Filtered(edges, onSeam), segment)
    IN  Once(DirectedEdges(faces), of)

\* Step 3 with its fallback: seam vertices stand in as zero-length segments
\* when no edge has both ends on the seam.
SeamSegments(ps, faces, seam) ==
    Once(CollectSeamEdgeSegments(ps, faces, seam),
         LAMBDA segments :
            IF segments # <<>> THEN segments
            ELSE Computed([i \in 1..Len(seam) |->
                     [p0 |-> ps[seam[i] + 1], p1 |-> ps[seam[i] + 1]]]))

\* ------------------------------------------------- steps 3b, 4: edge split
\* pointToSegmentDistance, squared. A segment with abLenSq < 1e-12 counts as
\* a point; every positive rational of the model exceeds 1e-12.
PointToSegmentDistanceSq(p, s0, s1) ==
    LET ab == VSub(s1, s0)
        ap == VSub(p, s0)
        along(abLenSq) ==
          IF abLenSq = R0
          THEN LengthSq(ap)
          ELSE Once(RMax(R0, RMin(R1, RDiv(Dot(ap, ab), abLenSq))),
                    LAMBDA t : LengthSq(VSub(VAdd(s0, VScale(ab, t)), p)))
    IN  Once(LengthSq(ab), along)

\* Some seam segment lies closer to p than reach.
WithinOfSeam(p, segments, reach) ==
    \E s \in 1..Len(segments) :
        RLt(PointToSegmentDistanceSq(p, segments[s].p0, segments[s].p1),
            RMul(reach, reach))

\* Faulty variant of SplitFace: only the first split edge of a face is
\* looked at.
SplitFaceAtOneEdge(face, m01, m12, m20) ==
    IF m01 # Null
    THEN << <<face[1], m01[1], face[3]>>, <<m01[1], face[2], face[3]>> >>
    ELSE IF m12 # Null
    THEN << <<face[1], face[2], m12[1]>>, <<face[1], m12[1], face[3]>> >>
    ELSE IF m20 # Null
    THEN << <<face[1], face[2], m20[1]>>, <<m20[1], face[2], face[3]>> >>
    ELSE <<face>>

\* The faces that replace one face whose edges carry the midpoints m01, m12
\* and m20 (Null for an edge that was not split).
SplitFace(face, m01, m12, m20) ==
    LET v0 == face[1]
        v1 == face[2]
        v2 == face[3]
        has01 == m01 # Null
        has12 == m12 # Null
        has20 == m20 # Null
    IN  IF ~has01 /\ ~has12 /\ ~has20 THEN << <<v0, v1, v2>> >>
        ELSE IF has01 /\ ~has12 /\ ~has20
             THEN << <<v0, m01[1], v2>>, <<m01[1], v1, v2>> >>
        ELSE IF ~has01 /\ has12 /\ ~has20
             THEN << <<v0, v1, m12[1]>>, <<v0, m12[1], v2>> >>
        ELSE IF ~has01 /\ ~has12 /\ has20
             THEN << <<v0, v1, m20[1]>>, <<m20[1], v1, v2>> >>
        ELSE IF has01 /\ has12 /\ ~has20
             THEN << <<v0, m01[1], m12[1]>>, <<v0, m12[1], v2>>,
                     <<m01[1], v1, m12[1]>> >>
        ELSE IF ~has01 /\ has12 /\ has20
             THEN << <<v0, v1, m12[1]>>, <<v0, m12[1], m20[1]>>,
                     <<m20[1], m12[1], v2>> >>
        ELSE IF has01 /\ ~has12 /\ has20
             THEN << <<v0, m01[1], m20[1]>>, <<m01[1], v1, v2>>,
                     <<m20[1], m01[1], v2>> >>
        ELSE << <<v0, m01[1], m20[1]>>, <<m01[1], v1, m12[1]>>,
                <<m20[1], m12[1], v2>>, <<m01[1], m12[1], m20[1]>> >>

\* The lists of parts one after the other (push in the order of the parts).
Concatenated(parts) ==
    LET of(all) ==
          LET width == IF all = <<>> THEN 0
                       ELSE Max(1, Len(all[CHOOSE i \in 1..Len(all) :
                                           \A j \in 1..Len(all) :
                                               Len(all[j]) <= Len(all[i])]))
              from(w) ==
                LET slot == [i \in 1..(w * Len(all)) |->
                               LET part == all[((i - 1) \div w) + 1]
                                   k == ((i - 1) % w) + 1
                               IN  IF k <= Len(part) THEN <<part[k]>> ELSE Null]
                    flat(kept) == Computed([i \in 1..Len(kept) |-> kept[i][1]])
                IN  Once(SelectSeq(Computed(slot), LAMBDA x : x # Null), flat)
          IN  Once(width, from)
    IN  Once(Computed(parts), of)

\* The edges with an end in the split zone that are longer than targetLength,
\* each once, in face order.
LongEdges(ps, faces, segments, splitZone, targetLength) ==
    LET of(keys) ==
          LET with(near) ==
                Distinct(Filtered(keys, LAMBDA e :
                    /\ near[keys[e][1] + 1] \/ near[keys[e][2] + 1]
                    /\ RLt(RMul(targetLength, targetLength),
                           DistSq(ps[keys[e][1] + 1], ps[keys[e][2] + 1]))))
          IN  Once(Computed([v \in 1..Len(ps) |->
                               WithinOfSeam(ps[v], segments, splitZone)]),
                   with)
    IN  Once(EdgeKeys(faces), of)

\* Faulty variant of SplitKeys: the vertex cap is not looked at.
SplitKeysUncapped(ps, faces, segments, splitZone, targetLength, cap) ==
    LongEdges(ps, faces, segments, splitZone, targetLength)

\* The keys of edgeMidpoints after the midpoint loop of one pass: the long
\* edges of the split zone, as many as the vertex cap leaves room for.
SplitKeys(ps, faces, segments, splitZone, targetLength, cap) ==
    LET room == IF cap > Len(ps) THEN cap - Len(ps) ELSE 0
    IN  Once(LongEdges(ps, faces, segments, splitZone, targetLength),
             LAMBDA wanted : IF Len(wanted) <= room THEN wanted
                             ELSE SubSeq(wanted, 1, room))

\* (a + b) / 2 per coordinate
Midpoint(a, b) == VScale(VAdd(a, b), Rat(1, 2))

\* Faulty variant of PromotedToSeam: one seam endpoint is enough.
PromotedWithOneEnd(seam, key) ==
    key[1] \in Range(seam) \/ key[2] \in Range(seam)

\* A midpoint joins seamVerts when both endpoints of its edge are in it.
PromotedToSeam(seam, key) ==
    key[1] \in Range(seam) /\ key[2] \in Range(seam)

\* One pass of the loop of splitSeamEdges over a mesh below its vertex cap:
\* the midpoints created, the faces rebuilt around them.
SplitPass(ps, faces, seam, segments, splitZone, targetLength, cap) ==
    LET of(split) ==
          LET mid(a, b) ==
                IF \E i \in 1..Len(split) : split[i] = EdgeKey(a, b)
                THEN <<Len(ps) + IndexOf(split, EdgeKey(a, b)) - 1>>
                ELSE Null
          IN  [created |-> Len(split),
               positions |->
                  ps \o [i \in 1..Len(split) |->
                           Midpoint(ps[split[i][1] + 1], ps[split[i][2] + 1])],
               indices |->
                  IF split = <<>> THEN faces
                  ELSE Concatenated([f \in 1..Len(faces) |->
                          SplitFace(faces[f],
                                    mid(faces[f][1], faces[f][2]),
                                    mid(faces[f][2], faces[f][3]),
                                    mid(faces[f][3], faces[f][1]))]),
               seamVerts |->
                  seam \o Filtered([i \in 1..Len(split) |-> Len(ps) + i - 1],
                                   LAMBDA i : PromotedToSeam(seam, split[i]))]
    IN  Once(SplitKeys(ps, faces, segments, splitZone, targetLength, cap), of)

\* ------------------------------------------------- steps 5 to 8: smoothing
\* buildAdjacency: the neighbours of vertex v over the faces.
BuildAdjacency(faces, v) ==
    UNION {Range(faces[f]) \ {v} : f \in {x \in 1..Len(faces) : v \in Range(faces[x])}}

\* The box around every seam segment, grown by maxDistance.
SeamBox(segments, maxDistance) ==
    ExpandByScalar(
        SetFromBufferAttribute([i \in 1..(2 * Len(segments)) |->
            IF i % 2 = 1 THEN segments[(i + 1) \div 2].p0
            ELSE segments[(i + 1) \div 2].p1]),
        maxDistance)

\* Faulty variant of Weighted: every vertex takes part in the smoothing.
WeightedEverywhere(p, segments, box, radius) == TRUE

\* weights[vi] > 0: computeDistanceField gives the vertex a distance below
\* radius (a vertex outside the box around the seam keeps Infinity), and
\* the smoothstep of computeSmoothstepWeights is positive exactly there.
Weighted(p, segments, box, radius) ==
    /\ ContainsPoint(box, p)
    /\ WithinOfSeam(p, segments, radius)

\* Math.max(20, Math.min(150, Math.floor(radius * 120))) unless given
NumIterations(o) ==
    IF o.iterations > 0 THEN o.iterations
    ELSE Max(20, IF Trunc(RMul(o.radius, RInt(120))) < 150
                 THEN Trunc(RMul(o.radius, RInt(120))) ELSE 150)

RECURSIVE SumAlong(_, _, _, _)
\* The sum of the positions of the vertices list[from .. to]: the sum of
\* the first half and the sum of the rest.
SumAlong(ps, list, from, to) ==
    IF from > to THEN VZero
    ELSE IF from = to THEN ps[list[from] + 1]
    ELSE Once(SumAlong(ps, list, from, (from + to) \div 2),
              LAMBDA half :
                 Once(SumAlong(ps, list, ((from + to) \div 2) + 1, to),
                      LAMBDA rest : VAdd(half, rest)))

\* The vertices of a set in increasing order.
Ascending(among) ==
    Once(among,
         LAMBDA set : Computed([i \in 1..Cardinality(set) |->
             CHOOSE v \in set : Cardinality({x \in set : x < v}) = i - 1]))

\* The sum of the positions of the vertices in among.
SumOver(ps, among) ==
    Once(Ascending(among), LAMBDA list : SumAlong(ps, list, 1, Len(list)))

\* applyLaplacianStep. A weighted vertex with neighbours moves toward their
\* average by the fraction by of the way. The source moves it by
\* min(w * lambda * |average - v|, maxStep), a length with square roots in
\* it; by stands for that length over |average - v|, between 0 and 0.8.
ApplyLaplacianStep(prev, adjacency, weights, by) ==
    Computed([i \in 1..Len(prev) |->
        IF ~weights[i] \/ adjacency[i] = {} THEN prev[i]
        ELSE Once(SumOver(prev, adjacency[i]),
                  LAMBDA sum :
                     VAdd(prev[i],
                          VScale(VSub(VScale(sum,
                                             Rat(1, Cardinality(adjacency[i]))),
                                      prev[i]),
                                 by)))])

RECURSIVE LaplacianSteps(_, _, _, _, _)
\* pos after the loop of step 8 has run iterations times.
LaplacianSteps(ps, adjacency, weights, by, iterations) ==
    IF iterations = 0 THEN ps
    ELSE Once(LaplacianSteps(ps, adjacency, weights, by, iterations - 1),
              LAMBDA prev : ApplyLaplacianStep(prev, adjacency, weights, by))

\* Steps 5 to 8: adjacency, distance field and weights of the unsmoothed
\* positions, then the Laplacian steps on a copy.
Smoothed(ps, faces, segments, o, by) ==
    LET in(box) ==
          LET with(weights) ==
                Once(Computed([i \in 1..Len(ps) |-> BuildAdjacency(faces, i - 1)]),
                     LAMBDA adjacency :
                        LaplacianSteps(ps, adjacency, weights, by,
                                       NumIterations(o)))
          IN  Once(Computed([i \in 1..Len(ps) |->
                               Weighted(ps[i], segments, box, o.radius)]),
                   with)
    IN  Once(SeamBox(segments, RMul(o.radius, Rat(13, 10))), in)

\* ------------------------------------------------------- step 8b: cleanup
\* cx * cx + cy * cy + cz * cz <= AREA_SQ_THRESHOLD (1e-10) for the cross
\* product c: no component above 1e-5, and the squares of the components
\* in units of 1e-5 sum to at most 1.
AreaSqWithinThreshold(c) ==
    /\ \A k \in 1..3 : Abs(c[k][1]) <= c[k][2] \div 100000
    /\ RLe(LengthSq(VScale(c, RInt(100000))), R1)

\* Step 8b: removeDegenerateFaces, and of the faces it keeps those whose
\* smoothed area is above the threshold. A face dropped for its area has
\* already entered the set of seen keys.
CleanedFaces(ps, faces) ==
    LET wide(kept) ==
          Filtered(kept, LAMBDA f :
              ~AreaSqWithinThreshold(FaceNormal(ps, kept[f])))
    IN  Once(RemoveDegenerateFaces(faces), wide)

\* ---------------------------------------------- step 8c: closeBoundaryHoles
\* edgeDirected.get(key): the traversal of the first face that has the edge,
\* Null for an edge no face has.
EdgeDirected(faces, key) ==
    LET of(keys) ==
          IF \E e \in 1..Len(keys) : keys[e] = key
          THEN <<DirectedEdges(faces)[IndexOf(keys, key)]>>
          ELSE Null
    IN  Once(EdgeKeys(faces), of)

\* boundaryAdj.get(v): the other ends of the boundary edges at v, in the
\* order of the boundary edges.
BoundaryAdj(edges, v) ==
    Once(Filtered(edges, LAMBDA i : edges[i][1] = v \/ edges[i][2] = v),
         LAMBDA mine : Computed([i \in 1..Len(mine) |->
                           IF mine[i][1] = v THEN mine[i][2] ELSE mine[i][1]]))

\* The cosine between a and b as a number that orders like it: its square
\* with its sign, the (common) length of a left out.
TurnScore(a, b) ==
    LET signed(dot) ==
          IF RLt(dot, R0) THEN RNeg(RDiv(RMul(dot, dot), LengthSq(b)))
          ELSE RDiv(RMul(dot, dot), LengthSq(b))
    IN  Once(Dot(a, b), signed)

\* pickNextByAngle: the first candidate whose direction deflects least from
\* the incoming one; candidates[0] when no direction has a length.
PickNextByAngle(ps, prev, current, candidates) ==
    LET incoming == VSub(ps[current + 1], ps[prev + 1])
        outgoing(to) == VSub(ps[to + 1], ps[current + 1])
        valid(i) == /\ LengthSq(incoming) # R0
                    /\ LengthSq(outgoing(candidates[i])) # R0
        best(score) ==
          LET usable == {i \in 1..Len(candidates) : score[i] # Null}
          IN  IF usable = {} THEN candidates[1]
              ELSE candidates[CHOOSE i \in usable :
                     /\ \A j \in usable : RLe(score[j][1], score[i][1])
                     /\ \A j \in usable :
                           j < i => RLt(score[j][1], score[i][1])]
    IN  Once(Computed([i \in 1..Len(candidates) |->
                         IF valid(i)
                         THEN <<TurnScore(incoming, outgoing(candidates[i]))>>
                         ELSE Null]),
             best)

\* for (safety = 0; safety < 1000; ...)
SafetyCap == 1000

\* loop.length > 200 ends a trace, a loop longer than 200 is not filled
LoopCap == 200

\* One turn of the tracing loop from the state st.
TraceStep(st, ps, edges, startA) ==
    IF st.done THEN st
    ELSE IF st.current = startA THEN [st EXCEPT !.closed = TRUE, !.done = TRUE]
    ELSE LET grown == Append(st.loop, st.current)
             on(to) ==
               [st EXCEPT !.loop = grown,
                          !.visited = @ \cup {EdgeKey(st.current, to)},
                          !.prev = st.current,
                          !.current = to]
             among(candidates) ==
               IF Len(grown) > LoopCap \/ candidates = <<>>
               THEN [st EXCEPT !.loop = grown, !.done = TRUE]
               ELSE Once(IF Len(candidates) = 1 THEN candidates[1]
                         ELSE PickNextByAngle(ps, st.prev, st.current,
                                              candidates),
                         on)
             unvisited(nbrs) ==
               Filtered(nbrs, LAMBDA i :
                   EdgeKey(st.current, nbrs[i]) \notin st.visited)
         IN  Once(Once(BoundaryAdj(edges, st.current), unvisited), among)

RECURSIVE TraceTurns(_, _, _, _, _)
\* The state turns turns of the tracing loop after the state st, startA
\* being the vertex the trace started at: half of the turns, then the rest.
TraceTurns(ps, edges, st, startA, turns) ==
    IF turns = 0 \/ st.done THEN st
    ELSE IF turns = 1 THEN TraceStep(st, ps, edges, startA)
    ELSE Once(TraceTurns(ps, edges, st, startA, turns \div 2),
              LAMBDA half : TraceTurns(ps, edges, half, startA,
                                       turns - (turns \div 2)))

\* The tracing loop run to its end: it ends by itself within one turn per
\* boundary edge and one more, and after SafetyCap turns at the latest.
TraceLoop(ps, edges, visited, start) ==
    TraceTurns(ps, edges,
               [loop |-> <<start[1]>>, visited |-> visited \cup {start},
                current |-> start[2], prev |-> start[1],
                closed |-> FALSE, done |-> FALSE],
               start[1],
               IF Len(edges) + 1 < SafetyCap THEN Len(edges) + 1 ELSE SafetyCap)

\* Faulty variant of Closes: a chain of three vertices or more counts as
\* closed wherever it ends.
ClosesWhereverItEnds(st, ps, meshScale) == st.closed \/ Len(st.loop) >= 3

\* The trace counts as closed: topologically, or with its end within
\* meshScale * 3e-3 of its start.
Closes(st, ps, meshScale) ==
    \/ st.closed
    \/ /\ Len(st.loop) >= 3
       /\ RLt(DistSq(ps[st.current + 1], ps[st.loop[1] + 1]),
              RMul(RMul(meshScale, Rat(3, 1000)), RMul(meshScale, Rat(3, 1000))))

\* Faulty variant of Accepted: the length of the loop is not looked at.
AcceptedAnyLength(st, ps, meshScale) == Closes(st, ps, meshScale)

\* A trace becomes a loop to fill.
Accepted(st, ps, meshScale) ==
    /\ Closes(st, ps, meshScale)
    /\ Len(st.loop) >= 3
    /\ Len(st.loop) <= LoopCap

\* visitedEdges and loops after the boundary edge edges[k] has been tried
\* as a start edge, earlier being what they were before.
TracedFrom(earlier, ps, edges, scale, k) ==
    LET with(st) ==
          [visited |-> st.visited,
           loops |-> IF Accepted(st, ps, scale)
                     THEN Append(earlier.loops, st.loop)
                     ELSE earlier.loops,
           traces |-> Append(earlier.traces, st.loop),
           closed |-> Append(earlier.closed, st.closed)]
    IN  IF edges[k] \in earlier.visited THEN earlier
        ELSE Once(TraceLoop(ps, edges, earlier.visited, edges[k]), with)

RECURSIVE TracedLoops(_, _, _, _, _, _)
\* visitedEdges and loops after the boundary edges from .. to have been
\* tried as start edges: the first half of them, then the rest.
TracedLoops(earlier, ps, edges, scale, from, to) ==
    IF from > to THEN earlier
    ELSE IF from = to THEN TracedFrom(earlier, ps, edges, scale, from)
    ELSE Once(TracedLoops(earlier, ps, edges, scale, from,
                          (from + to) \div 2),
              LAMBDA half : TracedLoops(half, ps, edges, scale,
                                        ((from + to) \div 2) + 1, to))

\* getWindingFromEdge
GetWindingFromEdge(a, b, third, faces) ==
    Once(EdgeDirected(faces, EdgeKey(a, b)),
         LAMBDA dir : IF dir # Null /\ dir[1] = <<a, b>> THEN <<b, a, third>>
                      ELSE <<a, b, third>>)

\* Faulty variant of FillFaces: the fan stops before the edge that closes
\* the loop.
FillFacesOpenFan(loop, centroid, faces) ==
    IF Len(loop) = 3
    THEN <<GetWindingFromEdge(loop[1], loop[2], loop[3], faces)>>
    ELSE Computed([i \in 1..(Len(loop) - 1) |->
            GetWindingFromEdge(loop[i], loop[i + 1], centroid, faces)])

\* The faces that fill one loop; centroid is the index its centroid vertex
\* takes when the loop has more than 3 vertices.
FillFaces(loop, centroid, faces) ==
    IF Len(loop) = 3
    THEN <<GetWindingFromEdge(loop[1], loop[2], loop[3], faces)>>
    ELSE Computed([i \in 1..Len(loop) |->
            GetWindingFromEdge(loop[i], loop[(i % Len(loop)) + 1], centroid,
                               faces)])

\* v times the positive number that makes its components integers without
\* a common factor: the direction of v, as v / len is in the source. What is
\* done with it looks at the sign of a dot product only.
Direction(v) ==
    LET over == ((v[1][2] \div Gcd(v[1][2], v[2][2])) * v[2][2])
        common == (over \div Gcd(over, v[3][2])) * v[3][2]
        whole == <<v[1][1] * (common \div v[1][2]),
                   v[2][1] * (common \div v[2][2]),
                   v[3][1] * (common \div v[3][2])>>
        shrunk(w) ==
          Once(Gcd(Gcd(Abs(w[1]), Abs(w[2])), Abs(w[3])),
               LAMBDA g : IF g = 0 THEN VZero
                          ELSE <<RInt(w[1] \div g), RInt(w[2] \div g),
                                 RInt(w[3] \div g)>>)
    IN  Once(whole, shrunk)

\* a . b < 0 for vectors of integers below 2^24 in size. Each product is
\* taken in two 12-bit halves per factor, so that no intermediate result
\* leaves 32 bits; the three digits of the sum in base 2^12 give its sign.
DotIsNegative(a, b) ==
    LET base == 4096
        sign(k) == IF (a[k][1] < 0) = (b[k][1] < 0) THEN 1 ELSE -1
        hi(x) == Abs(x) \div base
        lo(x) == Abs(x) % base
        high == [k \in 1..3 |-> sign(k) * hi(a[k][1]) * hi(b[k][1])]
        middle == [k \in 1..3 |->
                     sign(k) * (hi(a[k][1]) * lo(b[k][1])
                                + lo(a[k][1]) * hi(b[k][1]))]
        low == [k \in 1..3 |-> sign(k) * lo(a[k][1]) * lo(b[k][1])]
        carried == (middle[1] + middle[2] + middle[3])
                   + ((low[1] + low[2] + low[3]) \div base)
    IN  (high[1] + high[2] + high[3]) + (carried \div base) < 0

\* findAdjacentFaceNormal: the normal of the first original face with a
\* normal that shares an edge with the fill face, the edges of the fill face
\* taken in order; Null when there is none.
FindAdjacentFaceNormal(ps, faces, fill) ==
    LET fillKeys == EdgeKeys(<<fill>>)
        hit(e, f) ==
          /\ \E k \in 1..3 :
                EdgeKey(faces[f][k], faces[f][(k % 3) + 1]) = fillKeys[e]
          /\ FaceNormal(ps, faces[f]) # VZero
        first(hits) ==
          IF hits = {} THEN Null
          ELSE <<Direction(FaceNormal(ps, faces[
                   (CHOOSE x \in hits :
                      \A y \in hits :
                         x[1] < y[1] \/ (x[1] = y[1] /\ x[2] <= y[2]))[2]]))>>
    IN  Once({x \in (1..3) \X (1..Len(faces)) : hit(x[1], x[2])}, first)

\* Faulty variant of Validated: the fill face is left as it was wound.
ValidatedAsIs(ps, faces, fill) == fill

\* Step 5 of closeBoundaryHoles for one fill face: flipped when its normal
\* opposes the normal of the adjacent original face.
Validated(ps, faces, fill) ==
    Once(FindAdjacentFaceNormal(ps, faces, fill),
         LAMBDA adj :
            IF adj # Null
               /\ DotIsNegative(Direction(FaceNormal(ps, fill)), adj[1])
            THEN <<fill[1], fill[3], fill[2]>>
            ELSE fill)

\* The mean of the positions of the loop vertices.
Centroid(ps, loop) ==
    Once(SumAlong(ps, loop, 1, Len(loop)),
         LAMBDA sum : VScale(sum, Rat(1, Len(loop))))

\* closeBoundaryHoles: [indices |-> the faces with the fill faces appended,
\* finalPos |-> the positions with the centroids appended, loops |-> the
\* loops filled, traces |-> every trace made].
CloseBoundaryHoles(ps, faces, scale) ==
    LET of(traced) ==
          LET loops == traced.loops
              centroidOf(i) ==
                Len(ps) + Cardinality({j \in 1..(i - 1) : Len(loops[j]) # 3})
              with(finalPos) ==
                LET wound(fills) ==
                      [indices |-> faces \o [i \in 1..Len(fills) |->
                                      Validated(finalPos, faces, fills[i])],
                       finalPos |-> finalPos,
                       loops |-> loops,
                       traces |-> traced.traces,
                       closed |-> traced.closed]
                IN  Once(Concatenated([i \in 1..Len(loops) |->
                            FillFaces(loops[i], centroidOf(i), faces)]),
                         wound)
              centred(fans) ==
                ps \o [i \in 1..Len(fans) |-> Centroid(ps, fans[i])]
          IN  Once(Once(Filtered(loops, LAMBDA i : Len(loops[i]) # 3), centred),
                   with)
        close(edges) ==
          Once(TracedLoops([visited |-> {}, loops |-> <<>>, traces |-> <<>>,
                            closed |-> <<>>],
                           ps, edges, scale, 1, Len(edges)),
               of)
    IN  Once(BoundaryEdges(faces), close)

\* ----------------------------------------------------- smoothSeam: the call
\* Number of smoothSeam calls made one after the other on the same meshes.
MaxCalls == 2

\* The fractions a Laplacian step may move a vertex by (see
\* ApplyLaplacianStep); one is drawn at the first smoothing and kept.
StepFractions == {Rat(1, 2), Rat(1, 4)}

\* for (let pass = 0; pass < 3; pass++) of steps 1b and 4b
MaxWeldPasses == 3

\* maxPasses of the bridge split (step 3b)
BridgePasses == 2

\* maxPasses of the fillet split (step 4)
FilletPasses == 8

\* No lattice has been constructed.
NoLattice ==
    /\ controlPoints = Null /\ originalControlPoints = Null
    /\ initialControlPoints = Null /\ bbox = Null /\ geometry = Null
    /\ originalPositions = Null /\ subscribers = {}
    /\ l = 0 /\ m = 0 /\ n = 0 /\ requested = Null /\ size = Null
    /\ currentTransform = Null /\ lastDeformedGeometry = Null
    /\ snapshot = Null /\ seen = Null /\ op = "none" /\ before = Null
    /\ notified = Null /\ sculpts = Null /\ steps = 0

\* What is observed of a call from its entry on.
NewTrace(calls, result, tool, finished) ==
    [calls |-> calls,
     ran |-> <<>>,
     exit |-> "none",
     entry |-> [result |-> result, tool |-> tool],
     rep |-> <<>>,
     passes |-> [weld |-> 0, bridge |-> 0, split |-> 0, reweld |-> 0],
     splitCounts |-> {},
     capped |-> FALSE,
     holes |-> Null,
     finished |-> finished]

\* smoothSeam(resultGeometry, toolGeometry, options) has been entered.
SeamInit ==
    \E id \in ResultIds, tool \in ToolIds, options \in OptionChoices :
        /\ NoLattice
        /\ resultGeometry = ResultMesh(id)
        /\ toolGeometry = ToolMesh(tool)
        /\ opts = MergedOptions(options)
        /\ pc = "entered"
        /\ positions = <<>> /\ indices = <<>>
        /\ seamVerts = <<>> /\ seamSegments = <<>>
        /\ pass = 0 /\ maxVertCount = 0 /\ pos = <<>>
        /\ stepFraction = Null
        /\ returned = Null /\ thrown = Null
        /\ trace = NewTrace(1, ResultMesh(id), ToolMesh(tool), <<>>)

\* meshScale of step 1
meshScale == MeshScale(ComputeBoundingBox(resultGeometry))

\* Faulty variant of ReturnClone: the working positions are returned.
ReturnWorkingArrays(stage) ==
    /\ returned' = <<[position |-> <<positions>>, index |-> Null,
                      others |-> {"normal"}, boundingBox |-> Null]>>
    /\ pc' = "returned"
    /\ trace' = [trace EXCEPT !.ran = Append(@, stage), !.exit = stage]

\* const clone = resultGeometry.clone(); clone.computeVertexNormals();
\* return clone
ReturnClone(stage) ==
    /\ returned' = <<CloneWithNormals(resultGeometry)>>
    /\ pc' = "returned"
    /\ trace' = [trace EXCEPT !.ran = Append(@, stage), !.exit = stage]

\* if (opts.strength <= 0)
ZeroStrength ==
    /\ pc = "entered"
    /\ RLe(opts.strength, R0)
    /\ ReturnClone("strength")
    /\ UNCHANGED <<latticeVars, resultGeometry, toolGeometry, opts, positions,
                   indices, seamVerts, seamSegments, pass, maxVertCount, pos,
                   stepFraction, thrown>>

\* Step 1. mergeVertices reads posOnly.attributes.position, which a geometry
\* without positions does not have: a TypeError leaves the call. The merged
\* geometry always has an index, so that the exit for a missing index is
\* never taken.
Merge ==
    /\ pc = "entered"
    /\ RLt(R0, opts.strength)
    /\ IF resultGeometry.position = Null
       THEN /\ thrown' = <<"TypeError">>
            /\ pc' = "thrown"
            /\ trace' = [trace EXCEPT !.ran = Append(@, "merge"),
                                      !.exit = "thrown"]
            /\ UNCHANGED <<positions, indices>>
       ELSE \E merged \in {MergeVertices(resultGeometry,
                                          MergeTolerance(meshScale))} :
                /\ positions' = merged.position
                /\ indices' = Faces(merged.index)
                /\ pc' = "weld"
                /\ trace' = [trace EXCEPT !.ran = Append(@, "merge"),
                                          !.rep = merged.index]
                /\ UNCHANGED thrown
    /\ pass' = 0
    /\ UNCHANGED <<latticeVars, resultGeometry, toolGeometry, opts, seamVerts,
                   seamSegments, maxVertCount, pos, stepFraction, returned>>

\* One turn of the loop of step 1b (at = "weld") or 4b (at = "reweld"):
\* weldBoundaryVertices, and removeDegenerateFaces when it merged.
WeldLoop(at, next) ==
    /\ pc = at
    /\ \E w \in {WeldBoundaryVertices(positions, indices,
                                        WeldTolerance(meshScale))} :
          LET passes == IF w.merged THEN pass + 1 ELSE pass
              again == w.merged /\ pass + 1 < MaxWeldPasses
          IN  /\ indices' = IF w.merged THEN RemoveDegenerateFaces(w.indices)
                            ELSE indices
              /\ pass' = IF again THEN passes ELSE 0
              /\ pc' = IF again THEN at ELSE next
              /\ trace' = [trace EXCEPT
                             !.ran = Append(@, at),
                             !.passes[at] = passes,
                             !.rep = [i \in DOMAIN @ |-> w.root[@[i] + 1]]]
    /\ UNCHANGED <<latticeVars, resultGeometry, toolGeometry, opts, positions,
                   seamVerts, seamSegments, maxVertCount, pos, stepFraction,
                   returned, thrown>>

\* Step 1b.
WeldPass ==
    /\ pc = "weld"
    /\ WeldLoop("weld", "seam")

\* Step 4b.
ReweldPass ==
    /\ pc = "reweld"
    /\ WeldLoop("reweld", "smooth")

\* Steps 2 and 3, and the choice of step 3b.
FindSeam ==
    /\ pc = "seam"
    /\ toolGeometry' = ToolAfterFindSeamVertices(positions, indices, toolGeometry)
    /\ \E seam \in {FindSeamVertices(positions, indices, toolGeometry)} :
           IF seam = <<>>
           THEN /\ ReturnClone("seam")
                /\ UNCHANGED <<seamVerts, seamSegments, maxVertCount>>
           ELSE /\ seamVerts' = seam
                /\ seamSegments' = SeamSegments(positions, indices, seam)
                /\ pc' = IF RLt(opts.radius, RMul(meshScale, Rat(15, 100)))
                         THEN "bridge" ELSE "split"
                /\ maxVertCount' = 5 * Len(positions)
                /\ trace' = [trace EXCEPT !.ran = Append(@, "seam")]
                /\ UNCHANGED returned
    /\ pass' = 0
    /\ UNCHANGED <<latticeVars, resultGeometry, opts, positions, indices, pos,
                   stepFraction, thrown>>

\* One pass of a splitSeamEdges call that has not yet reached maxPasses or
\* its vertex cap. The call ends with the pass that creates no midpoint,
\* reaches maxPasses or fills the cap.
\* The vertices a pass appended at the midpoint of the edge from a to b.
MidpointsOf(ps, after, a, b) ==
    {mid \in Len(ps)..(Len(after) - 1) :
        a # b /\ after[mid + 1] = Midpoint(ps[a + 1], ps[b + 1])}

\* splitCount of a face: how many of its three edges got a midpoint.
FaceSplitCount(ps, after, face) ==
    Cardinality({i \in 1..3 :
        MidpointsOf(ps, after, face[i], face[(i % 3) + 1]) # {}})

SplitLoop(at, next, radius, targetLength, maxPasses) ==
    /\ pc = at
    /\ \E sp \in {SplitPass(positions, indices, seamVerts, seamSegments,
                              RMul(radius, Rat(12, 10)), targetLength,
                              maxVertCount)} :
          LET passes == IF sp.created = 0 THEN pass ELSE pass + 1
              again == /\ sp.created # 0
                       /\ pass + 1 < maxPasses
                       /\ Len(sp.positions) < maxVertCount
          IN  /\ positions' = sp.positions
              /\ indices' = sp.indices
              /\ seamVerts' = sp.seamVerts
              /\ pass' = IF again THEN passes ELSE 0
              /\ pc' = IF again THEN at ELSE next
              /\ trace' = [trace EXCEPT
                     !.ran = Append(@, at),
                     !.passes[at] = passes,
                     !.splitCounts =
                         IF sp.created = 0 THEN @
                         ELSE @ \cup {FaceSplitCount(positions, sp.positions,
                                                     indices[f]) :
                                         f \in 1..Len(indices)},
                     !.capped =
                         \/ @
                         \/ /\ sp.created # 0
                            /\ Len(sp.positions) = maxVertCount
                            /\ sp.created
                                 < Len(LongEdges(positions, indices,
                                                 seamSegments,
                                                 RMul(radius, Rat(12, 10)),
                                                 targetLength))]
    /\ UNCHANGED <<latticeVars, resultGeometry, toolGeometry, opts, seamSegments,
                   maxVertCount, pos, stepFraction, returned, thrown>>

\* Step 3b, the split: zone from minSplitRadius = meshScale * 0.15, target
\* Math.max(meshScale * 0.01, 0.005).
BridgeSplitPass ==
    /\ pc = "bridge"
    /\ SplitLoop("bridge", "bridgeWeld", RMul(meshScale, Rat(15, 100)),
                 RMax(RMul(meshScale, Rat(1, 100)), Rat(5, 1000)),
                 BridgePasses)

\* Step 3b, after the split: one weld, then removeDegenerateFaces whatever
\* the weld returned.
BridgeWeld ==
    /\ pc = "bridgeWeld"
    /\ \E w \in {WeldBoundaryVertices(positions, indices,
                                        WeldTolerance(meshScale))} :
          /\ indices' = RemoveDegenerateFaces(w.indices)
          /\ trace' = [trace EXCEPT
                         !.ran = Append(@, "bridgeWeld"),
                         !.rep = [i \in DOMAIN @ |-> w.root[@[i] + 1]]]
    /\ pc' = "split"
    /\ pass' = 0
    /\ maxVertCount' = 5 * Len(positions)
    /\ UNCHANGED <<latticeVars, resultGeometry, toolGeometry, opts, positions,
                   seamVerts, seamSegments, pos, stepFraction, returned,
                   thrown>>

\* targetLength of step 4: Math.max(opts.radius / 12, 0.003)
TargetLength(o) == RMax(RDiv(o.radius, RInt(12)), Rat(3, 1000))

\* Step 4.
FilletSplitPass ==
    /\ pc = "split"
    /\ SplitLoop("split", "reweld", opts.radius, TargetLength(opts),
                 FilletPasses)

\* Steps 5 to 8.
Smooth ==
    /\ pc = "smooth"
    /\ \E by \in StepFractions :
          /\ stepFraction # Null => by = stepFraction[1]
          /\ stepFraction' = <<by>>
          /\ pos' = Smoothed(positions, indices, seamSegments, opts, by)
    /\ pc' = "cleanup"
    /\ trace' = [trace EXCEPT !.ran = Append(@, "smooth")]
    /\ UNCHANGED <<latticeVars, resultGeometry, toolGeometry, opts, positions,
                   indices, seamVerts, seamSegments, pass, maxVertCount,
                   returned, thrown>>

\* Step 8b.
Cleanup ==
    /\ pc = "cleanup"
    /\ indices' = CleanedFaces(pos, indices)
    /\ pc' = "holes"
    /\ trace' = [trace EXCEPT !.ran = Append(@, "cleanup")]
    /\ UNCHANGED <<latticeVars, resultGeometry, toolGeometry, opts, positions,
                   seamVerts, seamSegments, pass, maxVertCount, pos,
                   stepFraction, returned, thrown>>

\* Step 8c. pos holds finalPos from here on.
CloseHoles ==
    /\ pc = "holes"
    /\ \E closed \in {CloseBoundaryHoles(pos, indices, meshScale)} :
          /\ indices' = closed.indices
          /\ pos' = closed.finalPos
          /\ trace' = [trace EXCEPT
                         !.ran = Append(@, "holes"),
                         !.holes = <<[loops |-> closed.loops,
                                      traces |-> closed.traces,
                                      closed |-> closed.closed,
                                      originalFaceCount |-> Len(indices)]>>]
    /\ pc' = "deindex"
    /\ UNCHANGED <<latticeVars, resultGeometry, toolGeometry, opts, positions,
                   seamVerts, seamSegments, pass, maxVertCount, stepFraction,
                   returned, thrown>>

\* The non-indexed geometry of step 9: one position per face corner.
DeIndexed(ps, faces) ==
    [position |-> << [i \in 1..(3 * Len(faces)) |->
                        ps[faces[((i - 1) \div 3) + 1][((i - 1) % 3) + 1] + 1]] >>,
     index |-> Null,
     others |-> {"normal"},
     boundingBox |-> Null]

\* Step 9.
DeIndex ==
    /\ pc = "deindex"
    /\ returned' = <<DeIndexed(pos, indices)>>
    /\ pc' = "returned"
    /\ trace' = [trace EXCEPT !.ran = Append(@, "deindex"), !.exit = "full"]
    /\ UNCHANGED <<latticeVars, resultGeometry, toolGeometry, opts, positions,
                   indices, seamVerts, seamSegments, pass, maxVertCount, pos,
                   stepFraction, thrown>>

\* The caller calls smoothSeam once more with the same meshes and options.
\* The working arrays of the call that ended are gone with it.
SmoothSeamAgain ==
    /\ pc \in {"returned", "thrown"}
    /\ trace.calls < MaxCalls
    /\ pc' = "entered"
    /\ positions' = <<>> /\ indices' = <<>>
    /\ seamVerts' = <<>> /\ seamSegments' = <<>>
    /\ pass' = 0 /\ maxVertCount' = 0 /\ pos' = <<>>
    /\ returned' = Null /\ thrown' = Null
    /\ trace' = NewTrace(trace.calls + 1, resultGeometry, toolGeometry,
                         Append(trace.finished,
                                [returned |-> returned, thrown |-> thrown,
                                 exit |-> trace.exit]))
    /\ UNCHANGED <<latticeVars, resultGeometry, toolGeometry, opts, stepFraction>>

SeamNext ==
    \/ ZeroStrength
    \/ Merge
    \/ WeldPass
    \/ FindSeam
    \/ BridgeSplitPass
    \/ BridgeWeld
    \/ FilletSplitPass
    \/ ReweldPass
    \/ Smooth
    \/ Cleanup
    \/ CloseHoles
    \/ DeIndex
    \/ SmoothSeamAgain

\* The stages of smoothSeam and its two ends.
Stages ==
    {"entered", "weld", "seam", "bridge", "bridgeWeld", "split", "reweld",
     "smooth", "cleanup", "holes", "deindex", "returned", "thrown"}

\* A stage is left to run: the call in progress has not ended, or another
\* call follows.
Running == pc \notin {"returned", "thrown"} \/ trace.calls < MaxCalls

\* The program counter's view of a step of SeamNext: every step moves pc to
\* another stage or starts another pass of a loop.
Proceeds ==
    /\ Running
    /\ \E stage \in Stages, passes \in 0..FilletPasses :
          /\ pc' = stage
          /\ pass' = passes
          /\ <<stage, passes>> # <<pc, pass>>


\* ------------------------------------------- findSeamVertices on its own
\* Meshes as they can come to step 2, to run seam detection on: [pos, faces].

\* How often one face can be stored in the index (mergeVertices keeps the
\* repeated faces of its input, and the weld loop removes none when it
\* merges nothing).
MaxCopies == 3

\* Heights of corner 3 above the plane of the other three: a fold of the
\* square along its diagonal by 0, 19.5, 25.2 and 54.7 degrees.
Lifts == {R0, Rat(1, 4), Rat(1, 3), RInt(1)}

\* A unit square 0, 1, 2, 3 with corner 3 lifted, covered by the faces
\* <<0, 1, 2>> (front times) and <<0, 2, 3>> (behind times) on the diagonal
\* 0-2 and none, one or both of the faces <<0, 1, 3>> and <<1, 2, 3>> on
\* the diagonal 1-3, these two with either winding.
Folded(lift, front, behind, left, right, flipped) ==
    [pos |-> <<V(0, 0, 0), V(1, 0, 0), V(1, 1, 0), <<R0, RInt(1), lift>> >>,
     faces |-> [i \in 1..front |-> <<0, 1, 2>>]
               \o [i \in 1..behind |-> <<0, 2, 3>>]
               \o (IF left THEN << (IF flipped THEN <<0, 3, 1>>
                                    ELSE <<0, 1, 3>>) >> ELSE <<>>)
               \o (IF right THEN << (IF flipped THEN <<1, 3, 2>>
                                     ELSE <<1, 2, 3>>) >> ELSE <<>>)]

SharpMeshes ==
    {Folded(lift, front, behind, left, right, flipped) :
        lift \in Lifts, front \in 1..MaxCopies, behind \in 0..(MaxCopies - 1),
        left \in BOOLEAN, right \in BOOLEAN, flipped \in BOOLEAN}

\* smoothSeam has reached step 2 with one of the meshes and a tool far from
\* it, so that findSeamVertices returns its sharp vertices.
SharpInit ==
    \E mesh \in SharpMeshes :
        /\ NoLattice
        /\ resultGeometry
             = BufferGeometry(<<mesh.pos>>, <<Concatenated(mesh.faces)>>, {})
        /\ toolGeometry = ToolMesh("away")
        /\ opts = MergedOptions([radius |-> RInt(24)])
        /\ pc = "seam"
        /\ positions = mesh.pos /\ indices = mesh.faces
        /\ seamVerts = <<>> /\ seamSegments = <<>>
        /\ pass = 0 /\ maxVertCount = 0 /\ pos = mesh.pos
        /\ stepFraction = Null
        /\ returned = Null /\ thrown = Null
        /\ trace = NewTrace(1, resultGeometry, toolGeometry, <<>>)

SharpNext == FindSeam

SpecSharp == SharpInit /\ [][SharpNext]_vars

\* ------------------------------------------ closeBoundaryHoles on its own
\* Meshes as they come to step 8b, to run the cleanup, closeBoundaryHoles
\* and the de-indexing on: [pos, faces].

\* The largest rim of the common disks.
MaxRim == 16

\* Rims around the loop cap of closeBoundaryHoles.
CapRims == {LoopCap - 1, LoopCap, LoopCap + 1}

\* Corner i (from 0) of a rim of rim corners in the plane z = 0: along
\* y = 0, back along y = 1, and a last corner at the left when rim is odd.
RimPoint(rim, i) ==
    IF i < rim \div 2 THEN V(i, 0, 0)
    ELSE IF i < 2 * (rim \div 2) THEN V(2 * (rim \div 2) - 1 - i, 1, 0)
    ELSE <<RInt(-1), Rat(1, 2), R0>>

\* A cone without its base: a hub at height lift, vertex 0, joined to the
\* rim corners of a rim, vertices 1 to rim. Its boundary is the rim.
Disk(rim, lift) ==
    [pos |-> Computed([v \in 1..(rim + 1) |->
                IF v = 1 THEN <<R0, Rat(1, 2), RInt(lift)>>
                ELSE RimPoint(rim, v - 2)]),
     faces |-> Computed([f \in 1..rim |-> <<0, f, (f % rim) + 1>>])]

\* Three faces on the one edge from vertex 0 to vertex 1, which is long
\* units / 100: the boundary has two vertices of odd degree.
Fin(units) ==
    [pos |-> <<V(0, 0, 0), <<Rat(units, 100), R0, R0>>, V(0, 4, 0),
               V(0, 0, 4), V(0, -4, 0)>>,
     faces |-> << <<0, 1, 2>>, <<0, 1, 3>>, <<0, 1, 4>> >>]

\* Two faces that meet in vertex 2 only, the second one ahead of the first
\* boundary walk or behind it.
Bowtie(ahead) ==
    [pos |-> <<V(-2, 1, 0), V(-2, 0, 0), V(0, 0, 0),
               IF ahead THEN V(2, 0, 0) ELSE <<RInt(-3), Rat(1, 2), R0>>,
               IF ahead THEN V(2, 1, 0) ELSE <<RInt(-3), Rat(-1, 2), R0>> >>,
     faces |-> << <<0, 1, 2>>, <<2, 3, 4>> >>]

\* Two meshes side by side, the second moved by dx along x.
Joined(first, second, dx) ==
    [pos |-> first.pos \o Computed([v \in 1..Len(second.pos) |->
                             VAdd(second.pos[v], V(dx, 0, 0))]),
     faces |-> first.faces \o Computed([f \in 1..Len(second.faces) |->
                  <<second.faces[f][1] + Len(first.pos),
                    second.faces[f][2] + Len(first.pos),
                    second.faces[f][3] + Len(first.pos)>>])]

HoleMeshes ==
    {Disk(rim, lift) : rim \in (3..MaxRim) \cup CapRims, lift \in {1, -1}}
      \cup {Fin(1), Fin(100), Bowtie(TRUE), Bowtie(FALSE),
            Joined(Disk(4, 1), Disk(5, -1), 10)}

\* A call that has come to step 8b with one of the meshes.
HolesInit ==
    \E mesh \in HoleMeshes :
        /\ NoLattice
        /\ resultGeometry
             = BufferGeometry(<<mesh.pos>>, <<Concatenated(mesh.faces)>>, {})
        /\ toolGeometry = ToolMesh("away")
        /\ opts = MergedOptions([radius |-> RInt(24)])
        /\ pc = "cleanup"
        /\ positions = mesh.pos /\ indices = mesh.faces
        /\ seamVerts = <<>> /\ seamSegments = <<>>
        /\ pass = 0 /\ maxVertCount = 0 /\ pos = mesh.pos
        /\ stepFraction = Null
        /\ returned = Null /\ thrown = Null
        /\ trace = NewTrace(1, resultGeometry, toolGeometry, <<>>)

HolesNext == Cleanup \/ CloseHoles \/ DeIndex

SpecHoles == HolesInit /\ [][HolesNext]_vars

\* smoothSeam is synchronous and single-threaded: a call that has been
\* entered keeps executing its stages until it returns or throws, and the
\* caller's next call is entered.
FairSpecSeam == SeamInit /\ [][SeamNext]_vars /\ WF_<<pc, pass>>(Proceeds)

SpecSeam == SeamInit /\ [][SeamNext]_vars

\* ------------------------------------------------------------------ claims
\* What the preceding operation started from.
Sculpted(idx) == sculpts[idx] # Null
Prior == before[1]

\* C1: after any sequence of operations with invertible transforms, every
\* working control point equals the current transform applied to the local
\* control point of the same index, and the local point of a sculpted index
\* is the dragged world position carried back by the inverse of the transform
\* that was current when it was dragged.
C1_WorkingIsTransformedLocal ==
    \A idx \in GridIndices(l, m, n) :
        /\ controlPoints[idx]
             = ApplyMatrix4(originalControlPoints[idx], currentTransform)
        /\ Sculpted(idx) =>
             originalControlPoints[idx]
               = ApplyMatrix4(sculpts[idx][1].position,
                              Invert(sculpts[idx][1].transform))

\* A point has just been dragged while a transform other than the identity
\* is applied.
C1_Witness ==
    /\ op = "moveControlPoint"
    /\ currentTransform # Identity
    /\ \E idx \in GridIndices(l, m, n) :
          /\ Sculpted(idx)
          /\ sculpts[idx][1].transform = currentTransform
          /\ originalControlPoints[idx] # controlPoints[idx]

\* One coordinate of a vertex after a deformation by the undeformed grid:
\* the original coordinate x, moved onto the face lo or hi of the bounding
\* box when it lies within epsilon box sizes of that face.
OnFaceOrOriginal(x, lo, hi) ==
    IF hi = lo THEN x
    ELSE IF RLt(RAbs(RSub(x, lo)), RMul(epsilon, RSub(hi, lo))) THEN lo
    ELSE IF RLt(RAbs(RSub(x, hi)), RMul(epsilon, RSub(hi, lo))) THEN hi
    ELSE x

SnappedOriginals ==
    [v \in 1..Len(originalPositions) |->
       [c \in 1..3 |->
          OnFaceOrOriginal(originalPositions[v][c], bbox.min[c], bbox.max[c])]]

EvenlySpaced(idx, c, count) ==
    RAdd(bbox.min[c], RDiv(RMul(RInt(idx[c]), RSub(bbox.max[c], bbox.min[c])),
                           RInt(count)))
EvenGrid ==
    [idx \in GridIndices(l, m, n) |->
       <<EvenlySpaced(idx, 1, l), EvenlySpaced(idx, 2, m), EvenlySpaced(idx, 3, n)>>]

\* C3: after reset() the local points and the working points both equal the
\* evenly spaced grid built at construction and the current transform is the
\* identity, whatever preceded; and the initial snapshot is that grid in
\* every state.
C3_ResetRestoresGrid ==
    /\ initialControlPoints = EvenGrid
    /\ op = "reset" =>
          /\ originalControlPoints = EvenGrid
          /\ controlPoints = EvenGrid
          /\ currentTransform = Identity

\* A reset of a lattice that was sculpted under a transform.
C3_Witness ==
    /\ op = "reset"
    /\ Prior.op \in {"moveControlPoint", "restoreSnapshot"}
    /\ Prior.currentTransform # Identity
    /\ Prior.geometry # geometry

\* C4: after updateTransform(T'), the working point of every index sculpted
\* earlier (dragged to p while T was current) is T' applied to the inverse of
\* T applied to p; it is p itself when T' = T.
C4_SculptSurvivesTransform ==
    op = "updateTransform" =>
        \A idx \in GridIndices(l, m, n) :
            Sculpted(idx) =>
              /\ controlPoints[idx]
                   = ApplyMatrix4(
                        ApplyMatrix4(sculpts[idx][1].position,
                                     Invert(sculpts[idx][1].transform)),
                        currentTransform)
              /\ currentTransform = sculpts[idx][1].transform =>
                   controlPoints[idx] = sculpts[idx][1].position

\* A point dragged under one transform, then a different transform applied.
C4_Witness ==
    /\ op = "updateTransform"
    /\ \E idx \in GridIndices(l, m, n) :
          /\ Sculpted(idx)
          /\ sculpts[idx][1].transform \notin {Identity, currentTransform}
          /\ controlPoints[idx] # sculpts[idx][1].position

\* deform() called on a lattice directly after its construction.
FreshDeform == op = "deform" /\ Prior.op = "construct"

\* A coordinate a reproduces the original b of a box [lo, hi]: it is b, or it
\* lies on a face of the box less than epsilon box sizes away from b.
Reproduces(a, b, lo, hi) ==
    \/ a = b
    \/ /\ a \in {lo, hi}
       /\ RLt(RAbs(RSub(a, b)), RMul(epsilon, RSub(hi, lo)))

\* C5: deform() on a freshly constructed lattice reproduces every vertex
\* position of the mesh within tolerance: each coordinate equals the
\* original, or was within epsilon (1e-6) box sizes of a face of the bounding
\* box and lies on that face; on an axis of zero size it equals the original.
C5_IdentityDeformReproduces ==
    FreshDeform =>
        \A v \in 1..Len(originalPositions) : \A c \in 1..3 :
            /\ Reproduces(geometry[v][c], originalPositions[v][c],
                          bbox.min[c], bbox.max[c])
            /\ size[c] = R0 => geometry[v][c] = originalPositions[v][c]

\* A fresh lattice over the sheet, whose bounding box has zero size on z and
\* which has a vertex next to two faces, deformed.
C5_Witness ==
    /\ FreshDeform
    /\ size[3] = R0
    /\ geometry # originalPositions
    /\ lastDeformedGeometry = geometry

\* The scenario of C6: the cube, l = m = n = 2, the top-centre control point
\* raised by (0, 0.5, 0) under the identity transform, then deform().
TopCentre == <<1, 2, 1>>
C6_Scenario ==
    /\ op = "deform"
    /\ Prior.op = "moveControlPoint"
    /\ originalPositions = MeshPositions("cube")
    /\ l = 2 /\ m = 2 /\ n = 2
    /\ currentTransform = Identity
    /\ controlPoints =
          [initialControlPoints EXCEPT
             ![TopCentre] = VAdd(@, <<R0, Rat(1, 2), R0>>)]

\* C6 as stated: in the scenario the four top-face vertices of the cube have
\* y above 1 and the four bottom-face vertices have y = -1.
C6_TopFaceRaised ==
    C6_Scenario =>
        \A v \in 1..Len(originalPositions) :
            /\ originalPositions[v][2] = R1 => RLt(R1, geometry[v][2])
            /\ originalPositions[v][2] = RInt(-1) => geometry[v][2] = RInt(-1)

\* C6, amended: in the scenario all eight vertices of the cube stay where
\* they were (top face at y = 1, bottom face at y = -1): at a corner of the
\* bounding box only the corner control point has a weight other than 0.
C6_CornersUnmoved ==
    C6_Scenario =>
        \A v \in 1..Len(originalPositions) :
            /\ geometry[v] = originalPositions[v]
            /\ originalPositions[v][2] = R1 => geometry[v][2] = R1
            /\ originalPositions[v][2] = RInt(-1) => geometry[v][2] = RInt(-1)

C6_Witness ==
    /\ C6_Scenario
    /\ Sculpted(TopCentre)
    /\ controlPoints[TopCentre] = <<R0, Rat(3, 2), R0>>

\* updateTransform(T) directly followed by updateTransform(identity);
\* T is Prior.currentTransform.
RoundTrip ==
    /\ op = "updateTransform"
    /\ currentTransform = Identity
    /\ Prior.op = "updateTransform"

\* C7 as stated: after the round trip the vertex positions are the original
\* positions (within the tolerance of C5), on a fresh lattice or not.
C7_RoundTripRestoresOriginals ==
    RoundTrip =>
        \A v \in 1..Len(originalPositions) : \A c \in 1..3 :
            Reproduces(geometry[v][c], originalPositions[v][c],
                       bbox.min[c], bbox.max[c])

\* C7, amended: after the round trip the vertex positions are those
\* updateTransform(T) had left, every sculpt edit still showing; when no
\* control point is sculpted they are the original positions with the
\* coordinates next to a face of the bounding box placed on that face.
C7_RoundTripKeepsDeformation ==
    RoundTrip =>
        /\ geometry = Prior.geometry
        /\ sculpts = NoSculpts(l, m, n) =>
              \A v \in 1..Len(originalPositions) : \A c \in 1..3 :
                  geometry[v][c] = SnappedOriginals[v][c]

\* A round trip through a transform other than the identity on a lattice
\* whose sculpt shows in the mesh.
C7_Witness ==
    /\ RoundTrip
    /\ Prior.currentTransform # Identity
    /\ \E idx \in GridIndices(l, m, n) : Sculpted(idx)
    /\ \E v \in 1..Len(originalPositions) : \E c \in 1..3 :
          geometry[v][c] # SnappedOriginals[v][c]

\* C8: a deform() call on a lattice that was deformed before changes neither
\* the deformed positions nor the local points, the working points or the
\* transform; a first deform() changes none of the latter three either.
C8_DeformIdempotent ==
    [][op' = "deform" =>
          /\ controlPoints' = controlPoints
          /\ originalControlPoints' = originalControlPoints
          /\ currentTransform' = currentTransform
          /\ lastDeformedGeometry # Null => geometry' = geometry]_vars

\* deform() called twice in a row on a sculpted lattice.
C8_Witness ==
    /\ op = "deform"
    /\ Prior.op = "deform"
    /\ Prior.geometry = geometry
    /\ \E idx \in GridIndices(l, m, n) : Sculpted(idx)
    /\ \E v \in 1..Len(originalPositions) : \E c \in 1..3 :
          geometry[v][c] # SnappedOriginals[v][c]

\* C9: updateTransform, reset and an in-range moveControlPoint invoke every
\* subscribed callback exactly once, and the callback reads the updated
\* control points and deformed geometry; no operation invokes a callback that
\* is not subscribed (never subscribed, or unsubscribed since).
C9_SubscribersNotifiedOnce ==
    /\ \A c \in Callbacks \ subscribers : notified[c] = 0
    /\ op \in {"updateTransform", "reset", "moveControlPoint"} =>
          \A c \in subscribers :
              /\ notified[c] = 1
              /\ seen[c] = <<Reading(controlPoints, geometry)>>

\* A drag that moved the mesh, with one callback subscribed and one not.
C9_Witness ==
    /\ op = "moveControlPoint"
    /\ subscribers = {"c1"}
    /\ notified["c1"] = 1 /\ notified["c2"] = 0
    /\ seen["c1"] # Null
    /\ seen["c1"][1].geometry # Prior.geometry

\* i, j, k within 0..l, 0..m, 0..n.
InRange(idx) == idx[1] \in 0..l /\ idx[2] \in 0..m /\ idx[3] \in 0..n

\* C10: moveControlPoint with an index outside 0..l, 0..m, 0..n changes
\* neither the local points, the working points, the transform nor the
\* deformed geometry, and invokes no subscriber.
C10_OutOfRangeMoveIsNoOp ==
    [][\A idx \in MoveIndices, newPosition \in MovePositions :
          (~InRange(idx) /\ MoveControlPoint(idx, newPosition)) =>
              /\ UNCHANGED <<controlPoints, originalControlPoints,
                             currentTransform, geometry, lastDeformedGeometry,
                             subscribers>>
              /\ notified' = NoCalls]_vars

\* An out-of-range move on a deformed lattice with a subscriber.
C10_Witness ==
    /\ op = "moveControlPoint.return"
    /\ subscribers # {}
    /\ lastDeformedGeometry # Null
    /\ notified = NoCalls

\* The lattice as the constructor leaves it, and after later deform() and
\* reset() calls; the requested counts are each an integer >= 1.
RequestedFromOne == \A c \in 1..3 : requested[c] >= 1

\* C11 as stated: the effective counts equal the requested counts, and there
\* are (l+1)(m+1)(n+1) control points for the requested l, m, n.
C11_EffectiveIsRequested ==
    RequestedFromOne =>
        /\ <<l, m, n>> = requested
        /\ Cardinality(DOMAIN controlPoints)
             = (requested[1] + 1) * (requested[2] + 1) * (requested[3] + 1)

\* C11, amended: each effective count is the requested count raised to at
\* least 2; there are (l+1)(m+1)(n+1) control points for the effective
\* l, m, n, the points of construction are evenly spaced over the bounding
\* box by the effective counts, and deform() blends exactly these points.
C11_EffectiveIsRequestedFromTwo ==
    RequestedFromOne =>
        /\ \A c \in 1..3 :
              <<l, m, n>>[c] = IF requested[c] < 2 THEN 2 ELSE requested[c]
        /\ DOMAIN controlPoints = (0..l) \X (0..m) \X (0..n)
        /\ Cardinality(DOMAIN controlPoints) = (l + 1) * (m + 1) * (n + 1)
        /\ initialControlPoints = EvenGrid
        /\ op \in {"construct", "reset"} => controlPoints = EvenGrid
        /\ op = "deform" =>
              \A v \in 1..Len(originalPositions) : \A c \in 1..3 :
                  geometry[v][c] = SnappedOriginals[v][c]

\* A lattice requested with one subdivision on an axis and three on another,
\* deformed.
C11_Witness ==
    /\ op = "deform"
    /\ requested[1] = 1 /\ l = 2
    /\ requested[2] = 3 /\ m = 3
    /\ Cardinality(DOMAIN controlPoints) = 3 * 4 * (n + 1)

\* C12: a call with strength <= 0 raises nothing and returns a mesh with the
\* positions and the index of the result mesh it was given, whatever the
\* radius, the iterations and the tool; the one stage it runs is the
\* strength test.
C12_ZeroStrengthReturnsInput ==
    RLe(opts.strength, R0) =>
        /\ pc \in {"entered", "returned"}
        /\ pc = "returned" =>
              /\ returned # Null
              /\ returned[1].position = trace.entry.result.position
              /\ returned[1].index = trace.entry.result.index
              /\ trace.ran = <<"strength">>
              /\ trace.passes = [weld |-> 0, bridge |-> 0, split |-> 0,
                                 reweld |-> 0]
              /\ trace.holes = Null
              /\ positions = <<>> /\ indices = <<>> /\ pos = <<>>

\* The indexed tetrahedron comes back from a call with strength -1.
C12_Witness ==
    /\ pc = "returned"
    /\ opts.strength = RInt(-1)
    /\ returned # Null
    /\ returned[1].index = << <<0, 2, 1, 0, 1, 3, 0, 3, 2, 1, 2, 3>> >>
    /\ Len(returned[1].position[1]) = 4

\* The position the result mesh gave to its corner i at entry.
InputPosition(i) ==
    trace.entry.result.position[1][Corners(trace.entry.result)[i] + 1]

\* The distance of p to every seam segment exceeds radius.
FarFromSeam(p) ==
    \A s \in 1..Len(seamSegments) :
        RLt(RMul(opts.radius, opts.radius),
            PointToSegmentDistanceSq(p, seamSegments[s].p0, seamSegments[s].p1))

\* The call ran its full pipeline and has returned.
FullPipelineReturned == pc = "returned" /\ trace.exit = "full"

C14_NoDegenerateOrDuplicateFaces ==
    FullPipelineReturned =>
        \A f \in 1..Len(indices) :
            /\ ~Collapsed(indices[f])
            /\ \A g \in 1..(f - 1) : Range(indices[g]) # Range(indices[f])

\* The small triangle after the full pipeline: hole closing has filled its
\* own outline with a second face over the same three vertices.
C14_Witness ==
    /\ FullPipelineReturned
    /\ trace.holes # Null
    /\ trace.holes[1].originalFaceCount = 1
    /\ trace.holes[1].loops = << <<0, 1, 2>> >>
    /\ indices = << <<0, 1, 2>>, <<1, 2, 0>> >>
    /\ Len(returned[1].position[1]) = 6

\* C15: when a call has ended, by return or by throw, on any path, both
\* input meshes are in every field what they were when it was entered.
C15_InputsUnwritten ==
    pc \in {"returned", "thrown"} =>
        /\ resultGeometry = trace.entry.result
        /\ toolGeometry = trace.entry.tool

\* A call that went through seam detection has returned; the tool mesh,
\* entered without a bounding box, now has one, and the result mesh is as
\* it was.
C15_Witness ==
    /\ pc = "returned"
    /\ "seam" \in Range(trace.ran)
    /\ trace.entry.tool.boundingBox = Null
    /\ toolGeometry.boundingBox
         = << [min |-> V(4, 0, -1), max |-> V(5, 0, 1)] >>
    /\ toolGeometry.position = trace.entry.tool.position
    /\ resultGeometry = trace.entry.result

\* C16: a call that leaves by an early exit (strength <= 0, no index after
\* the merge, no sharp vertex) has thrown nothing and returns a mesh with
\* the positions and the index of the result mesh as it was entered,
\* whatever the welds did to the working arrays; every return is either
\* such an exit or the end of the full pipeline.
C16_EarlyExitReturnsInputClone ==
    pc = "returned" =>
        /\ trace.exit \in {"strength", "index", "seam", "full"}
        /\ trace.exit # "full" =>
              /\ thrown = Null
              /\ returned # Null
              /\ returned[1].position = trace.entry.result.position
              /\ returned[1].index = trace.entry.result.index
              /\ returned[1].others
                   = trace.entry.result.others
                        \cup (IF trace.entry.result.position = Null THEN {}
                              ELSE {"normal"})

\* The sliver: the weld has merged its two close corners, the collapsed
\* face is gone, seam detection finds no sharp vertex and the call returns
\* the three input positions.
C16_Witness ==
    /\ pc = "returned"
    /\ trace.exit = "seam"
    /\ trace.passes.weld >= 1
    /\ indices = <<>>
    /\ Len(positions) = 3
    /\ returned[1].position = << <<PA, PB, PBGap>> >>

\* The result mesh as entered has two distinct vertices on boundary edges
\* at one position.
DuplicateBoundaryVertices ==
    LET g == trace.entry.result
        bv == Range(BoundaryVerts(Faces(Corners(g))))
    IN  /\ g.position # Null
        /\ \E a \in bv : \E b \in bv :
              a # b /\ g.position[1][a + 1] = g.position[1][b + 1]

\* The merge and the first weld loop are over.
Welded == pc = "seam" /\ DuplicateBoundaryVertices

\* C17: for a mesh with two distinct boundary vertices at one position, the
\* merge and the weld passes leave strictly fewer vertices than the mesh
\* had, and no remaining face has a repeated vertex index.
C17_WeldLeavesFewerVerticesNoCollapsedFace ==
    Welded =>
        /\ Len(positions) < Len(trace.entry.result.position[1])
        /\ \A f \in 1..Len(indices) : ~Collapsed(indices[f])

\* The part of C17 that holds: fewer vertices, and no collapsed face once
\* a weld pass has merged something.
C17_FewerVertices ==
    Welded =>
        /\ Len(positions) < Len(trace.entry.result.position[1])
        /\ trace.passes.weld >= 1 =>
              \A f \in 1..Len(indices) : ~Collapsed(indices[f])

\* The pinched triangle after the weld loop: two of its corners were merged
\* by mergeVertices, no weld pass merged anything, and the face (0, 0, 1)
\* is still in the index.
C17_Witness ==
    /\ Welded
    /\ trace.entry.result.position = << <<PA, PA, PB>> >>
    /\ trace.passes.weld = 0
    /\ positions = <<PA, PB>>
    /\ indices = << <<0, 0, 1>> >>

\* The call in progress was entered with a result mesh that has positions.
Positioned == trace.entry.result.position # Null

\* The caps of the loops of the call in progress are respected: at most 3
\* weld passes per weld loop, 2 bridge and 8 fillet split passes, no more
\* than five times the vertices a split started with, and boundary loops of
\* at most LoopCap vertices, at most SafetyCap of them.
WithinCaps ==
    /\ pass <= FilletPasses
    /\ trace.passes.weld <= MaxWeldPasses
    /\ trace.passes.reweld <= MaxWeldPasses
    /\ trace.passes.bridge <= BridgePasses
    /\ trace.passes.split <= FilletPasses
    /\ maxVertCount > 0 => Len(positions) <= maxVertCount
    /\ trace.holes # Null =>
          /\ Len(trace.holes[1].loops) <= SafetyCap
          /\ \A i \in 1..Len(trace.holes[1].loops) :
                Len(trace.holes[1].loops[i]) <= LoopCap

\* A split loop of the call in progress stopped at its pass cap or at its
\* vertex cap.
CapReached ==
    \/ trace.passes.bridge = BridgePasses
    \/ trace.passes.split = FilletPasses
    \/ maxVertCount > 0 /\ Len(positions) >= maxVertCount

FullReturn ==
    /\ pc = "returned"
    /\ trace.exit = "full"
    /\ returned # Null
    /\ thrown = Null
    /\ trace.ran[Len(trace.ran)] = "deindex"

PreviousCall == trace.finished[Len(trace.finished)]

C20_NoPositionsRejected ==
    (trace.entry.result.position = Null /\ pc \in {"returned", "thrown"}) =>
        /\ pc = "thrown"
        /\ thrown = <<"InvalidGeometry">>
        /\ returned = Null

\* The mesh without positions was passed with strength <= 0: the call has
\* returned a clone, which has no positions either, and thrown nothing.
C20_Witness ==
    /\ trace.entry.result.position = Null
    /\ RLe(opts.strength, R0)
    /\ pc = "returned"
    /\ trace.exit = "strength"
    /\ thrown = Null
    /\ returned # Null
    /\ returned[1].position = Null

\* Face g runs along the edge from a to b, in that direction.
Along(g, a, b) == \E i \in 1..3 : g[i] = a /\ g[(i % 3) + 1] = b

\* No face of the mesh keeps an edge at whose midpoint one of the vertices
\* from index `first` on lies.
NoTJunction(ps, faces, first) ==
    \A g \in 1..Len(faces) : \A i \in 1..3 :
        LET a == faces[g][i]
            b == faces[g][(i % 3) + 1]
        IN  a # b =>
              \A mid \in first..(Len(ps) - 1) :
                  ps[mid + 1] # Midpoint(ps[a + 1], ps[b + 1])

\* A pass of splitSeamEdges that created a midpoint rebuilt every face:
\* k split edges give k + 1 faces, each split edge is there as its two
\* halves, and no face keeps an edge that has a midpoint.
Rebuilt ==
    Len(positions') > Len(positions) =>
        /\ Len(indices')
             = Cardinality({fk \in (1..Len(indices)) \X (0..3) :
                              fk[2] <= FaceSplitCount(positions, positions',
                                                      indices[fk[1]])})
        /\ \A f \in 1..Len(indices) : \A i \in 1..3 :
              LET a == indices[f][i]
                  b == indices[f][(i % 3) + 1]
              IN  \A mid \in MidpointsOf(positions, positions', a, b) :
                      /\ \E g \in 1..Len(indices') : Along(indices'[g], a, mid)
                      /\ \E g \in 1..Len(indices') : Along(indices'[g], mid, b)
        /\ NoTJunction(positions', indices', Len(positions))

\* C21: every pass of an edge split replaces a face with k split edges by
\* k + 1 faces and every split edge by its two halves in every face that
\* had it, the pass that stops at the vertex cap included, so that no face
\* is left with an unsplit edge whose midpoint another face uses.
C21_SplitRebuildsEveryFace ==
    [][(pc \in {"bridge", "split"}) => Rebuilt]_vars

\* Splits are over in which faces with 0, 1, 2 and 3 split edges were
\* rebuilt and the vertex cap stopped a pass short of its long edges; the
\* mesh they left has no T-junction among the vertices they added.
C21_Witness ==
    /\ pc = "reweld"
    /\ trace.splitCounts = {0, 1, 2, 3}
    /\ trace.capped
    /\ Len(positions) = maxVertCount
    /\ NoTJunction(positions, indices, maxVertCount \div 5)

\* closeBoundaryHoles has run in the call in progress.
HolesClosed == trace.holes # Null

\* How many times the faces run along the edge between a and b, in either
\* direction.
EdgeUses(faces, a, b) ==
    Cardinality({fi \in (1..Len(faces)) \X (1..3) :
        EdgeKey(faces[fi[1]][fi[2]], faces[fi[1]][(fi[2] % 3) + 1])
          = EdgeKey(a, b)})

\* The faces closeBoundaryHoles was given.
OriginalFaces == SubSeq(indices, 1, trace.holes[1].originalFaceCount)

\* Every trace closed on its start vertex and was accepted.
EveryLoopClosed ==
    /\ trace.holes[1].loops = trace.holes[1].traces
    /\ \A t \in 1..Len(trace.holes[1].closed) : trace.holes[1].closed[t]

\* No edge of the faces borders exactly one face.
Watertight(faces) ==
    \A f \in 1..Len(faces) : \A i \in 1..3 :
        EdgeUses(faces, faces[f][i], faces[f][(i % 3) + 1]) # 1

\* C22: after closeBoundaryHoles every boundary edge on an accepted loop
\* borders exactly two faces, and when every traced loop closed on its
\* start and was accepted, no edge of the final index borders exactly one
\* face.
C22_AcceptedLoopsAreClosedOff ==
    HolesClosed =>
        /\ \A k \in 1..Len(trace.holes[1].loops) :
              LET loop == trace.holes[1].loops[k]
              IN  \A i \in 1..Len(loop) :
                      LET a == loop[i]
                          b == loop[(i % Len(loop)) + 1]
                      IN  EdgeUses(OriginalFaces, a, b) = 1
                            => EdgeUses(indices, a, b) = 2
        /\ EveryLoopClosed => Watertight(indices)

\* A mesh that came to closeBoundaryHoles with a boundary loop of more than
\* three vertices has it closed by a fan and is watertight.
C22_Witness ==
    /\ HolesClosed
    /\ pc = "deindex"
    /\ EveryLoopClosed
    /\ \E k \in 1..Len(trace.holes[1].loops) :
          Len(trace.holes[1].loops[k]) > 3
    /\ ~Watertight(OriginalFaces)
    /\ Watertight(indices)

\* The boundary edges trace t walked: its consecutive pairs, and the pair
\* that closes it when it came back to its start.
WalkedBy(t) ==
    LET loop == trace.holes[1].traces[t]
    IN  {<<t, i>> : i \in 1..(Len(loop) - 1)}
          \cup (IF trace.holes[1].closed[t] THEN {<<t, Len(loop)>>} ELSE {})

\* The key of the edge that trace t walked as its step i.
WalkedKey(ti) ==
    LET loop == trace.holes[1].traces[ti[1]]
    IN  EdgeKey(loop[ti[2]], loop[(ti[2] % Len(loop)) + 1])

\* Trace t is one to fill: back at its start, or ended within
\* meshScale * 3e-3 of it, and of 3 to 200 vertices.
ToFill(t) ==
    LET loop == trace.holes[1].traces[t]
        near == RMul(meshScale, Rat(3, 1000))
    IN  /\ 3 <= Len(loop)
        /\ Len(loop) <= 200
        /\ \/ trace.holes[1].closed[t]
           \/ RLt(DistSq(pos[loop[Len(loop)] + 1], pos[loop[1] + 1]),
                  RMul(near, near))

\* C23: no boundary edge is walked twice, by one trace or by two; the
\* loops that are filled are the traces that closed, on their start or
\* within meshScale * 3e-3 of it, with 3 to 200 vertices, in the order they
\* were traced; and the faces added are one per 3-loop and one per edge of
\* a longer loop, none for any other trace.
C23_TracesAndFilledLoops ==
    HolesClosed =>
        LET holes == trace.holes[1]
            walked == UNION {WalkedBy(t) : t \in 1..Len(holes.traces)}
            filled == {t \in 1..Len(holes.traces) : ToFill(t)}
        IN  /\ \A x \in walked : \A y \in walked :
                  x # y => WalkedKey(x) # WalkedKey(y)
            /\ \A x \in walked :
                  EdgeUses(OriginalFaces, WalkedKey(x)[1], WalkedKey(x)[2]) = 1
            /\ Len(holes.loops) = Cardinality(filled)
            /\ \A t \in filled :
                  holes.loops[Cardinality({u \in filled : u <= t})]
                    = holes.traces[t]
            /\ Len(indices) - holes.originalFaceCount
                 = Cardinality({ti \in filled \X (1..LoopCap) :
                      ti[2] <= (IF Len(holes.traces[ti[1]]) = 3 THEN 1
                                ELSE Len(holes.traces[ti[1]]))})

\* The open cone with a rim of 201 vertices: the trace of its rim stopped
\* at 201 vertices, nothing was filled and no face was added.
C23_Witness ==
    /\ HolesClosed
    /\ \E t \in 1..Len(trace.holes[1].traces) :
          Len(trace.holes[1].traces[t]) = 201
    /\ trace.holes[1].loops = <<>>
    /\ trace.holes[1].originalFaceCount = 201
    /\ Len(indices) = 201

\* How many passes of the stage have run in the call in progress.
PassesRun(stage) ==
    Cardinality({i \in 1..Len(trace.ran) : trace.ran[i] = stage})

\* The vertices of the old faces' edges of which vertex mid is the new
\* midpoint.
ParentEdges(mid) ==
    {EdgeKey(indices[fi[1]][fi[2]], indices[fi[1]][(fi[2] % 3) + 1]) :
        fi \in {x \in (1..Len(indices)) \X (1..3) :
                  mid \in MidpointsOf(positions, positions',
                                      indices[x[1]][x[2]],
                                      indices[x[1]][(x[2] % 3) + 1])}}

\* One pass of splitSeamEdges: it stays under the vertex cap, a pass
\* without a midpoint changes nothing and ends the loop, another pass
\* follows only below the pass cap and the vertex cap, and the seam set
\* gains the midpoints of the edges between two of its vertices, no other.
SplitPassKeepsCaps ==
    LET cap == IF pc = "bridge" THEN BridgePasses ELSE FilletPasses
        made == Len(positions') - Len(positions)
    IN  /\ (pc \notin Range(trace.ran)) => maxVertCount = 5 * Len(positions)
        /\ maxVertCount' = maxVertCount
        /\ made >= 0
        /\ Len(positions') <= maxVertCount
        /\ PassesRun(pc)' <= cap
        /\ made = 0 =>
              /\ pc' # pc
              /\ indices' = indices
              /\ seamVerts' = seamVerts
        /\ pc' = pc =>
              /\ made > 0
              /\ PassesRun(pc)' < cap
              /\ Len(positions') < maxVertCount
        /\ SubSeq(seamVerts', 1, Len(seamVerts)) = seamVerts
        /\ \A mid \in Len(positions)..(Len(positions') - 1) :
              (mid \in Range(seamVerts'))
                <=> (\E key \in ParentEdges(mid) :
                        key[1] \in Range(seamVerts)
                          /\ key[2] \in Range(seamVerts))

\* C24: within one call of splitSeamEdges the vertex count stays at or
\* below five times the count it started with, no more passes run than the
\* pass cap (2 for the bridge split, 8 for the fillet split), the loop ends
\* at the first pass without a midpoint, and a midpoint joins the seam
\* vertices exactly when both ends of its edge are seam vertices.
C24_SplitLoopCapsAndSeamMidpoints ==
    [][(pc \in {"bridge", "split"}) => SplitPassKeepsCaps]_vars

\* The fillet split is over after two passes or more and has filled the
\* vertex cap; one of the vertices it added is a seam vertex.
C24_Witness ==
    /\ pc = "reweld"
    /\ trace.passes.split >= 2
    /\ Len(positions) = maxVertCount
    /\ \E mid \in (maxVertCount \div 5)..(Len(positions) - 1) :
          mid \in Range(seamVerts)

\* No face has a repeated index and no two faces have the same three
\* vertices.
NoCollapsedOrRepeatedFace(faces) ==
    /\ \A f \in 1..Len(faces) : ~Collapsed(faces[f])
    /\ \A f \in 1..Len(faces) : \A g \in 1..(f - 1) :
          Range(faces[f]) # Range(faces[g])

\* No face has a cross product of squared length 1e-10 or less.
NoZeroAreaFace(ps, faces) ==
    \A f \in 1..Len(faces) :
        ~AreaSqWithinThreshold(FaceNormal(ps, faces[f]))

\* The weld loop goes on after a pass that merged, for 3 passes at most,
\* and ends with the first pass that merged nothing.
WeldLoopRepeats ==
    /\ PassesRun(pc)' <= MaxWeldPasses
    /\ pc' = pc =>
          /\ trace'.passes[pc] = trace.passes[pc] + 1
          /\ PassesRun(pc)' < MaxWeldPasses
    /\ trace'.passes[pc] = trace.passes[pc] => pc' # pc

NarrowZone == RLt(opts.radius, RMul(meshScale, Rat(15, 100)))

\* Every vertex a pass of the bridge split added is the midpoint of an edge
\* longer than Math.max(meshScale * 0.01, 0.005) with an end within
\* 1.2 * 0.15 * meshScale of the seam.
BridgeMidpointsInWideZone ==
    LET bridgeTarget == RMax(RMul(meshScale, Rat(1, 100)), Rat(5, 1000))
        splitZone == RMul(RMul(meshScale, Rat(15, 100)), Rat(12, 10))
    IN  \A mid \in Len(positions)..(Len(positions') - 1) :
           \E key \in ParentEdges(mid) :
              /\ RLt(RMul(bridgeTarget, bridgeTarget),
                     DistSq(positions[key[1] + 1], positions[key[2] + 1]))
              /\ \/ WithinOfSeam(positions[key[1] + 1], seamSegments, splitZone)
                 \/ WithinOfSeam(positions[key[2] + 1], seamSegments, splitZone)

\* Step 3b is entered exactly for a narrow zone; otherwise the fillet split
\* follows seam detection on the same mesh.
BridgeChosenByRadius ==
    (pc = "seam" /\ pc' # "returned") =>
        /\ pc' = (IF NarrowZone THEN "bridge" ELSE "split")
        /\ positions' = positions
        /\ indices' = indices

\* The weld and the cleanup that close step 3b.
BridgeEndsWithWeldAndCleanup ==
    (pc = "bridgeWeld") =>
        /\ pc' = "split"
        /\ positions' = positions
        /\ Len(indices') <= Len(indices)
        /\ NoCollapsedOrRepeatedFace(indices')

\* C26 as stated: below 0.15 * meshScale the bridge step is one split pass
\* over the wide zone, then a weld and a cleanup; at or above it there is no
\* bridge pass and the working mesh goes to the fillet split unchanged.
C26_BridgeIsOneCoarsePass ==
    [][/\ BridgeChosenByRadius
       /\ (pc = "bridge") => (pc' = "bridgeWeld" /\ BridgeMidpointsInWideZone)
       /\ BridgeEndsWithWeldAndCleanup]_vars

\* C26, amended: below 0.15 * meshScale the bridge step is one call of
\* splitSeamEdges with maxPasses 2 over the wide zone (a second pass follows
\* a first one that made a midpoint and left room under the vertex cap),
\* then one weld and a cleanup; at or above it there is no bridge pass and
\* the working mesh goes to the fillet split unchanged.
C26_BridgeIsAtMostTwoCoarsePasses ==
    [][/\ BridgeChosenByRadius
       /\ (pc = "bridge") =>
             /\ pc' \in {"bridge", "bridgeWeld"}
             /\ PassesRun("bridge")' <= BridgePasses
             /\ pc' = "bridge" => Len(positions') > Len(positions)
             /\ BridgeMidpointsInWideZone
       /\ BridgeEndsWithWeldAndCleanup]_vars

\* The bridge step has run two splitting passes, welded and cleaned, and
\* the fillet split is next.
C26_Witness ==
    /\ pc = "split"
    /\ NarrowZone
    /\ trace.passes.bridge = 2
    /\ PassesRun("bridgeWeld") = 1
    /\ PassesRun("split") = 0
    /\ NoCollapsedOrRepeatedFace(indices)

\* ---------------------------------------------------------------- C27
\* How many faces list the edge between a and b (a face listing it twice
\* counts twice, as in the edgeMap).
FacesOn(a, b) == EdgeUses(indices, a, b)

\* The two faces on an edge that has two.
PairOn(a, b) ==
    {pair \in (1..Len(indices)) \X (1..Len(indices)) :
        /\ pair[1] < pair[2]
        /\ {a, b} \subseteq Range(indices[pair[1]])
        /\ {a, b} \subseteq Range(indices[pair[2]])}

\* The normals of the two faces on the edge are more than 25 degrees apart.
Over25(a, b) ==
    \E pair \in PairOn(a, b) :
        SharpAngle(FaceNormal(positions, indices[pair[1]]),
                   FaceNormal(positions, indices[pair[2]]))

\* The vertices on an edge that satisfies mark(a, b).
EndsOfEdges(mark(_, _)) ==
    {v \in 0..(Len(positions) - 1) :
        \E w \in 0..(Len(positions) - 1) :
            v # w /\ FacesOn(v, w) > 0 /\ mark(v, w)}

\* What a run of findSeamVertices with the tool far away shows of the
\* sharp set: the seam set, or the return of step 3 when it is empty.
SharpSetIs(sharp) ==
    IF sharp = {} THEN pc' = "returned" /\ trace'.exit = "seam"
    ELSE pc' # "returned" /\ Range(seamVerts') = sharp

\* C27 as stated: the sharp vertices are the ends of the edges with exactly
\* one face and of the edges with two faces more than 25 degrees apart; an
\* edge with any other number of faces marks nothing.
C27_SharpIffOpenOrOver25 ==
    [][(pc = "seam") =>
          SharpSetIs(EndsOfEdges(LAMBDA a, b :
              \/ FacesOn(a, b) = 1
              \/ FacesOn(a, b) = 2 /\ Over25(a, b)))]_vars

\* C27, amended: the sharp vertices are the ends of the edges whose number
\* of faces is not two and of the edges with two faces more than 25 degrees
\* apart; an edge with two faces at a smaller angle marks nothing.
C27_SharpIffNotTwoFacesOrOver25 ==
    [][(pc = "seam") =>
          SharpSetIs(EndsOfEdges(LAMBDA a, b :
              \/ FacesOn(a, b) # 2
              \/ FacesOn(a, b) = 2 /\ Over25(a, b)))]_vars

\* Seam detection has marked the ends of the diagonal 0-2, which four
\* faces list, and left the other two corners, all of whose edges have two
\* faces at 25 degrees or less, unmarked.
C27_Witness ==
    /\ pc = "split"
    /\ PassesRun("seam") = 1
    /\ Range(seamVerts) = {0, 2}
    /\ FacesOn(0, 2) = 4
    /\ \A v \in {1, 3}, w \in 0..3 :
          FacesOn(v, w) > 0 => FacesOn(v, w) = 2 /\ ~Over25(v, w)
    /\ \E w \in 0..3 : FacesOn(1, w) > 0

\* ---------------------------------------------------------------- C28
\* How many times the faces run from a to b.
DirectedUses(faces, a, b) ==
    Cardinality({fi \in (1..Len(faces)) \X (1..3) :
        faces[fi[1]][fi[2]] = a /\ faces[fi[1]][(fi[2] % 3) + 1] = b})

\* The faces closeBoundaryHoles appended, as they are in the final index.
FillFacesAdded ==
    SubSeq(indices, trace.holes[1].originalFaceCount + 1, Len(indices))

\* The fill face runs along each boundary edge of the given faces against
\* the direction of the one given face on that edge.
WoundAgainstNeighbour(fill) ==
    \A i \in 1..3 :
        LET a == fill[i]
            b == fill[(i % 3) + 1]
        IN  EdgeUses(OriginalFaces, a, b) = 1
              => DirectedUses(OriginalFaces, a, b) = 0

\* C28: in the index closeBoundaryHoles leaves, every fill face traverses
\* each boundary edge it fills in the direction opposite to the traversal
\* by the adjacent original face.
C28_FillFacesWoundConsistently ==
    HolesClosed =>
        \A f \in 1..Len(FillFacesAdded) : WoundAgainstNeighbour(FillFacesAdded[f])

\* closeBoundaryHoles has closed a loop with a fan, and every face of the
\* fan runs along its boundary edge in the direction of the original face
\* there.
C28_Witness ==
    /\ HolesClosed
    /\ Len(FillFacesAdded) > 3
    /\ \A f \in 1..Len(FillFacesAdded) :
          \E i \in 1..3 :
              LET a == FillFacesAdded[f][i]
                  b == FillFacesAdded[f][(i % 3) + 1]
              IN  /\ EdgeUses(OriginalFaces, a, b) = 1
                  /\ DirectedUses(OriginalFaces, a, b) = 1

\* ---------------------------------------------------------------- C29
\* C29: updateTransform(M) with an invertible M leaves the deformed vertex
\* positions as they were immediately before it, whatever control points
\* have been sculpted.
C29_UpdateTransformKeepsDeformedMesh ==
    [][(op' = "updateTransform" /\ steps' = steps + 1)
          => geometry' = geometry]_vars

\* C29, amended: updateTransform(M) with an invertible M leaves the
\* deformed vertex positions as they were when the lattice has deformed
\* the mesh before; the first deformation after construction can move a
\* vertex onto a bounding-box face it was within 1e-6 box sizes of.
C29_UpdateTransformKeepsDeformedOnce ==
    [][(op' = "updateTransform" /\ steps' = steps + 1
          /\ lastDeformedGeometry # Null)
          => geometry' = geometry]_vars

\* updateTransform has replaced the transform of a lattice with a sculpted
\* control point whose mesh was deformed away from its original positions,
\* and the positions are those from before the call.
C29_Witness ==
    /\ op = "updateTransform"
    /\ currentTransform # before[1].currentTransform
    /\ currentTransform # Identity
    /\ \E idx \in DOMAIN sculpts : sculpts[idx] # Null
    /\ before[1].op = "moveControlPoint"
    /\ geometry # originalPositions
    /\ geometry = before[1].geometry

\* ---------------------------------------------------------------- C30
\* restoreSnapshot has put back the captured working points, local points
\* and transform, and has invoked each subscriber once.
RestoredLattice ==
    /\ controlPoints = snapshot[1].controlPoints
    /\ originalControlPoints = snapshot[1].originalControlPoints
    /\ currentTransform = snapshot[1].currentTransform
    /\ \A c \in Callbacks : notified[c] = (IF c \in subscribers THEN 1 ELSE 0)

\* The captured arrays are copies: no operation on the lattice other than
\* a new capture changes them.
CapturedArraysKept ==
    (snapshot # Null) =>
        \/ snapshot' = snapshot
        \/ op' = "captureSnapshot" /\ steps' = steps + 1

\* C30 as stated: a restore after any operations returns working points,
\* local points, transform and vertex positions to their values at capture
\* time and notifies the subscribers once, and the captured arrays never
\* change under later operations.
C30_RestoreReturnsCapturedState ==
    /\ [](op = "restoreSnapshot" =>
             /\ RestoredLattice
             /\ geometry = snapshot[1].geometry)
    /\ [][CapturedArraysKept]_vars

\* C30, amended: as stated, but the vertex positions return to their values
\* at capture time only when the capture followed a deformation; a capture
\* taken before the first deformation holds the input positions, and the
\* restore leaves what deform() makes of them.
C30_RestoreReturnsCapturedDeformedState ==
    /\ [](op = "restoreSnapshot" =>
             /\ RestoredLattice
             /\ \/ geometry = snapshot[1].geometry
                \/ /\ snapshot[1].geometry = originalPositions
                   /\ snapshot[1].controlPoints = initialControlPoints
                   /\ snapshot[1].currentTransform = Identity
                   /\ geometry = DeformedPositions(initialControlPoints,
                                                   Identity))
    /\ [][CapturedArraysKept]_vars

\* A snapshot is captured, a control point is then dragged so that the mesh
\* changes, and the restore brings points, transform and positions back to
\* the captured ones.
C30_Witness ==
    /\ op = "restoreSnapshot"
    /\ RestoredLattice
    /\ before[1].op = "moveControlPoint"
    /\ geometry = snapshot[1].geometry
    /\ geometry # before[1].geometry

====
